---- MODULE Spec2Model ----
(***************************************************************************)
(* Behavioural analytics engine of the trading journal.                    *)
(*                                                                         *)
(* A DataFrame is modelled as a sequence of rows, a row as a record whose  *)
(* fields are the columns.  Times are integer minutes since an epoch, so   *)
(* `.dt.total_seconds() / 60` is the difference of two times.  NaN (the    *)
(* first element of a diff()/shift()) is the empty sequence and a defined  *)
(* number v is <<v>>, so that a comparison with NaN is False as in pandas. *)
(***************************************************************************)
EXTENDS Integers, Sequences, FiniteSets, TLC

VARIABLES
    df,            \* the DataFrame of app.py (normalised, then scored, labelled)
    stage,         \* position in app.py's pipeline
    df_prev,       \* the DataFrame before the last re-scoring
    df_filtered,   \* app.py: df restricted to the selected symbols
    selected_symbols,
    behavioral_stats,
    tiltmeter,
    loaded_runs,   \* runs of alike trades read from the export (tilt index)
    nb_trades,     \* len(df) of the frame behavioral_stats was computed from
    alerts,        \* app.py:657  detect_behavioral_patterns(behavioral_stats)
    error,         \* the exception the last stage raised, "" if none
    trade_dna,     \* app.py:328  extract_trade_dna(df_filtered)
    mc_stats,      \* app.py:717  monte_carlo_simulation(df, ...)
    mc_stats_prev, \* the summary of the run before the last one
    n_simulations, \* the trial count of the last run
    mc_results,    \* robustness.py:11  results, the trials of the last run
    stats,         \* app.py:251-271  the statistics tables
    returned       \* what the last engine stage returned to its caller

\* the results of the stages downstream of the scorer
\* the state of the robustness simulator
monte_carlo == <<mc_stats, mc_stats_prev, n_simulations, mc_results>>

outputs == <<nb_trades, alerts, error, trade_dna, monte_carlo, stats, returned>>

vars == <<df, stage, df_prev, df_filtered, selected_symbols, behavioral_stats, tiltmeter,
          loaded_runs, outputs>>

(***************************************************************************)
(* Bounds of the model and the sets the inputs are drawn from.             *)
(***************************************************************************)
MaxTrades == 6          \* rows of a DataFrame in the scoring pipeline
MaxFilterTrades == 3    \* rows of a DataFrame in the symbol-filter pipeline
MaxRun == 8             \* trades of one homogeneous run (tilt index)
MaxRuns == 2            \* runs of a DataFrame (tilt index)
SessionStart == 600     \* minute of the day before the first close

Symbols == {"BTC_USDT", "ETH_USDT"}
PnLs == {-1, 1}
ScoredRowPnLs == {-1, 0, 1}
CloseGaps == {2}
TiltCloseGaps == {1, 10, 1440}
Durations == {1, 4, 7}
FilterDurations == {1, 4}

(***************************************************************************)
(* pandas helpers.                                                         *)
(***************************************************************************)
NaN == <<>>

\* `series < c` element-wise: False on NaN.
LessThan(x, c) == x # NaN /\ x[1] < c

\* df[name] = value on one row (adds the column or overwrites it).
SetCol(row, name, value) == (name :> value) @@ row

\* The frame with every row computed (a function written [i \in 1..n |-> e]
\* as the tuple of its values).
Frame(f) == f \o <<>>

HasCol(d, name) == \A i \in 1..Len(d) : name \in DOMAIN d[i]

RECURSIVE SeqSum(_)
SeqSum(s) == IF s = <<>> THEN 0 ELSE s[1] + SeqSum(Tail(s))

Column(d, name) == Frame([i \in 1..Len(d) |-> d[i][name]])

\* df[mask]: the rows whose index satisfies mask, in order.
RECURSIVE SelectRows(_, _)
SelectRows(d, mask) ==
    IF d = <<>> THEN <<>>
    ELSE LET rest == SelectRows(Tail(d), Tail(mask))
         IN  IF mask[1] THEN <<d[1]>> \o rest ELSE rest

\* Ascending insertion of a value into a sorted sequence of numbers.
RECURSIVE InsertSorted(_, _)
InsertSorted(s, v) ==
    IF s = <<>> THEN <<v>>
    ELSE IF v < s[1] THEN <<v>> \o s
    ELSE <<s[1]>> \o InsertSorted(Tail(s), v)

RECURSIVE SortValues(_)
SortValues(s) == IF s = <<>> THEN <<>> ELSE InsertSorted(SortValues(Tail(s)), s[1])

(***************************************************************************)
(* data_loader.py                                                          *)
(***************************************************************************)
\* normalize_positions on one raw position row.
normalize_positions(raw) ==
    [symbol           |-> raw.symbol,
     open_time        |-> raw.open_time,
     close_time       |-> raw.close_time,
     pnl              |-> raw.pnl,
     duration_minutes |-> raw.close_time - raw.open_time,
     is_win           |-> raw.pnl > 0]

\* df.sort_values('close_time').reset_index(drop=True): rows by ascending
\* close time (insertion of one row into an already sorted frame).
RECURSIVE InsertByCloseTime(_, _)
InsertByCloseTime(d, row) ==
    IF d = <<>> THEN <<row>>
    ELSE IF row.close_time < d[1].close_time THEN <<row>> \o d
    ELSE <<d[1]>> \o InsertByCloseTime(Tail(d), row)

RECURSIVE sort_values_close_time(_)
sort_values_close_time(d) ==
    IF d = <<>> THEN <<>>
    ELSE InsertByCloseTime(sort_values_close_time(Tail(d)), d[1])

(***************************************************************************)
(* ml/scoring.py: calculate_discipline_score                               *)
(***************************************************************************)
INITIAL_SCORE == 100
SHORT_PENALTY == 30
REVENGE_PENALTY == 20
IMPULSE_PENALTY == 10
MIN_TRADES == 5
REVENGE_STREAK == 5
IMPULSE_MINUTES == 5


\* Mutant: the score column is kept when it already exists.
initial_score_kept(row) ==
    IF "discipline_score" \in DOMAIN row THEN row.discipline_score ELSE INITIAL_SCORE

\* df['discipline_score'] = 100
initial_score(row) == INITIAL_SCORE


\* Mutant: len(df) > 6
has_enough_trades_gt6(d) == Len(d) > MIN_TRADES + 1

\* Mutant: len(df) >= 5
has_enough_trades_ge(d) == Len(d) >= MIN_TRADES

\* if len(df) > 5
has_enough_trades(d) == Len(d) > MIN_TRADES

\* 5 * df['duration_minutes'].quantile(0.20), pandas' default linear
\* interpolation: with s the sorted values (0-based) and h = 0.20 * (n - 1),
\* the quantile is s[floor(h)] + frac(h) * (s[floor(h) + 1] - s[floor(h)]).
\* Five times that value is an integer, which keeps the comparison exact.
quantile_20_times5(values) ==
    LET s   == SortValues(values)
        n   == Len(values)
        lo  == ((n - 1) \div 5) + 1
        rem == (n - 1) % 5
    IN  IF rem = 0 THEN 5 * s[lo]
        ELSE 5 * s[lo] + rem * (s[lo + 1] - s[lo])

\* Mutant: df['duration_minutes'] < duration_20th
is_short_below(duration, duration_20th_times5) == 5 * duration < duration_20th_times5

\* mask_short = df['duration_minutes'] <= duration_20th
is_short(duration, duration_20th_times5) == 5 * duration <= duration_20th_times5

mask_short(d) ==
    LET duration_20th_times5 == quantile_20_times5(Column(d, "duration_minutes"))
    IN  Frame([i \in 1..Len(d) |-> is_short(d[i].duration_minutes, duration_20th_times5)])


\* Mutant: score += penalty
penalise_add(score, penalty) == score + penalty

\* score -= penalty on one masked row
penalise(score, penalty) == score - penalty

\* df.loc[mask, 'discipline_score'] -= penalty
sub_where(d, mask, penalty) ==
    Frame([i \in 1..Len(d) |->
        IF mask[i]
        THEN SetCol(d[i], "discipline_score", penalise(d[i].discipline_score, penalty))
        ELSE d[i]])


\* Mutant: the streak is not reset by a win.
next_loss_streak_no_reset(row, loss_streak) ==
    IF ~row.is_win THEN loss_streak + 1 ELSE loss_streak

\* the body of the iterrows loop: the streak after this row
next_loss_streak(row, loss_streak) ==
    IF ~row.is_win THEN loss_streak + 1 ELSE 0

\* for idx, row in df.iterrows(): streaks.append(loss_streak); ...
RECURSIVE iterrows_streaks(_, _, _, _)
iterrows_streaks(d, i, loss_streak, streaks) ==
    IF i > Len(d) THEN streaks
    ELSE iterrows_streaks(d, i + 1, next_loss_streak(d[i], loss_streak),
                          Append(streaks, loss_streak))


\* Mutant: the docstring's threshold of 3 losses.
is_revenge_after_3(prev_loss_streak) == prev_loss_streak >= 3

\* mask_revenge = df['prev_loss_streak'] >= 5
is_revenge(prev_loss_streak) == prev_loss_streak >= REVENGE_STREAK


\* Mutant: .diff().fillna(0)
diff_open_time_fill0(d) ==
    Frame([i \in 1..Len(d) |->
        IF i = 1 THEN <<0>> ELSE <<d[i].open_time - d[i - 1].open_time>>])

\* df['open_time'].diff().dt.total_seconds() / 60
diff_open_time(d) ==
    Frame([i \in 1..Len(d) |->
        IF i = 1 THEN NaN ELSE <<d[i].open_time - d[i - 1].open_time>>])

\* Mutant: df['time_since_prev'] <= 5
is_impulse_le(time_since_prev) == time_since_prev # NaN /\ time_since_prev[1] <= IMPULSE_MINUTES

\* mask_impulse = df['time_since_prev'] < 5
is_impulse(time_since_prev) == LessThan(time_since_prev, IMPULSE_MINUTES)

\* .clip(lower=0)
clip_lower(score) == IF score < 0 THEN 0 ELSE score

calculate_discipline_score(d) ==
    LET n   == Len(d)
        d1  == Frame([i \in 1..n |-> SetCol(d[i], "discipline_score", initial_score(d[i]))])
        d2  == IF has_enough_trades(d1) THEN sub_where(d1, mask_short(d1), SHORT_PENALTY)
               ELSE d1
        streaks == iterrows_streaks(d2, 1, 0, <<>>)
        d3  == Frame([i \in 1..n |-> SetCol(d2[i], "prev_loss_streak", streaks[i])])
        d4  == sub_where(d3, Frame([i \in 1..n |-> is_revenge(d3[i].prev_loss_streak)]),
                         REVENGE_PENALTY)
        tsp == diff_open_time(d4)
        d5  == Frame([i \in 1..n |-> SetCol(d4[i], "time_since_prev", tsp[i])])
        d6  == sub_where(d5, Frame([i \in 1..n |-> is_impulse(d5[i].time_since_prev)]),
                         IMPULSE_PENALTY)
    IN  Frame([i \in 1..n |->
                 SetCol(d6[i], "discipline_score", clip_lower(d6[i].discipline_score))])

(***************************************************************************)
(* ml/scoring.py: label_trades                                             *)
(***************************************************************************)
DESTRUCTIVE_BELOW == 40
FALSE_GOOD_BELOW == 60

\* Mutant: every rule that holds overwrites the label, so the last one wins.
RECURSIVE np_select_last(_, _, _)
np_select_last(conditions, choices, default) ==
    IF conditions = <<>> THEN default
    ELSE np_select_last(Tail(conditions), Tail(choices),
                        IF conditions[1] THEN choices[1] ELSE default)

\* np.select(conditions, choices, default): the choice of the first
\* condition that holds.
RECURSIVE np_select(_, _, _)
np_select(conditions, choices, default) ==
    IF conditions = <<>> THEN default
    ELSE IF conditions[1] THEN choices[1]
    ELSE np_select(Tail(conditions), Tail(choices), default)

\* Mutant: a score of 40 is already destructive.
label_conditions_at_or_below(row) ==
    << row.discipline_score <= DESTRUCTIVE_BELOW,
       row.is_win /\ row.discipline_score < FALSE_GOOD_BELOW >>

label_conditions(row) ==
    << row.discipline_score < DESTRUCTIVE_BELOW,
       row.is_win /\ row.discipline_score < FALSE_GOOD_BELOW >>

label_choices == << "Trade destructeur", "Faux bon trade" >>

label_row(row) ==
    LET r1 == SetCol(row, "trade_label",
                     np_select(label_conditions(row), label_choices, "Trade sain"))
        r2 == SetCol(r1, "is_destructive", row.discipline_score < DESTRUCTIVE_BELOW)
    IN  SetCol(r2, "is_false_good",
               row.is_win /\ row.discipline_score < FALSE_GOOD_BELOW)

label_trades(d) == Frame([i \in 1..Len(d) |-> label_row(d[i])])

(***************************************************************************)
(* Rounding: round(x, 1) of the float x = num / den, in tenths.  Python     *)
(* rounds the float correctly, ties to even; for the shares count / n * 100 *)
(* with n <= 40 that is the exact quotient rounded half to even.            *)
(***************************************************************************)
round_half_even(num, den) ==
    LET q == num \div den
        r == num % den
    IN  IF 2 * r > den THEN q + 1
        ELSE IF 2 * r < den THEN q
        ELSE IF q % 2 = 0 THEN q ELSE q + 1

\* round(count / n * 100, 1) in tenths of a percent
pct_tenths(count, n) == round_half_even(1000 * count, n)

(***************************************************************************)
(* stats/behavioral_stats.py                                               *)
(* The model's PnL values are integers, so round(x, 2) of a PnL sum is the  *)
(* sum itself.                                                             *)
(***************************************************************************)
\* one step of the loop of calculate_max_streaks: the state is
\* <<max_win, max_loss, current_win, current_loss>>
max_streaks_step(st, pnl) ==
    IF pnl > 0 THEN
        << IF st[3] + 1 > st[1] THEN st[3] + 1 ELSE st[1], st[2], st[3] + 1, 0 >>
    ELSE IF pnl < 0 THEN
        << st[1], IF st[4] + 1 > st[2] THEN st[4] + 1 ELSE st[2], 0, st[4] + 1 >>
    ELSE << st[1], st[2], 0, 0 >>

RECURSIVE max_streaks_loop(_, _)
max_streaks_loop(pnls, st) ==
    IF pnls = <<>> THEN st
    ELSE max_streaks_loop(Tail(pnls), max_streaks_step(st, pnls[1]))

\* (max_win_streak, max_loss_streak)
calculate_max_streaks(d) ==
    IF Len(d) = 0 THEN <<0, 0>>
    ELSE LET st == max_streaks_loop(Column(d, "pnl"), <<0, 0, 0, 0>>)
         IN  <<st[1], st[2]>>

\* df[df['prev_loss_streak'] == n]['pnl'].sum()
pnl_after_n_losses(d, n) ==
    SeqSum(Column(SelectRows(d, Frame([i \in 1..Len(d) |-> d[i].prev_loss_streak = n])),
                  "pnl"))

\* twice df['duration_minutes'].median()
median_times2(values) ==
    LET s == SortValues(values)
        n == Len(values)
    IN  IF n % 2 = 1 THEN 2 * s[(n + 1) \div 2]
        ELSE s[n \div 2] + s[(n \div 2) + 1]

calculate_behavioral_stats(d) ==
    IF Len(d) = 0 THEN <<>>
    ELSE
    LET n        == Len(d)
        streaks  == calculate_max_streaks(d)
        has_pls  == HasCol(d, "prev_loss_streak")
        quick_trades ==
            SelectRows(d, Frame([i \in 1..n |->
                IF "time_since_prev" \in DOMAIN d[i]
                THEN LessThan(d[i].time_since_prev, 5)
                ELSE 999 < 5]))
        median_duration_times2 == median_times2(Column(d, "duration_minutes"))
        patient_trades ==
            SelectRows(d, Frame([i \in 1..n |->
                2 * d[i].duration_minutes >= median_duration_times2]))
        quick_duration_trades ==
            SelectRows(d, Frame([i \in 1..n |->
                2 * d[i].duration_minutes < median_duration_times2]))
        revenge_trades ==
            SelectRows(d, Frame([i \in 1..n |->
                (IF "prev_loss_streak" \in DOMAIN d[i] THEN d[i].prev_loss_streak ELSE 0)
                    >= 5]))
    IN  [max_win_streak     |-> streaks[1],
         max_loss_streak    |-> streaks[2],
         pnl_after_1_loss   |-> IF has_pls THEN pnl_after_n_losses(d, 1) ELSE 0,
         pnl_after_2_losses |-> IF has_pls THEN pnl_after_n_losses(d, 2) ELSE 0,
         pnl_after_3_losses |-> IF has_pls THEN pnl_after_n_losses(d, 3) ELSE 0,
         quick_entry_count  |-> Len(quick_trades),
         quick_entry_pnl    |-> SeqSum(Column(quick_trades, "pnl")),
         quick_entry_pct    |-> pct_tenths(Len(quick_trades), n),
         patient_pnl        |-> SeqSum(Column(patient_trades, "pnl")),
         quick_duration_pnl |-> SeqSum(Column(quick_duration_trades, "pnl")),
         revenge_count      |-> Len(revenge_trades),
         revenge_pnl        |-> SeqSum(Column(revenge_trades, "pnl")),
         revenge_pct        |-> pct_tenths(Len(revenge_trades), n)]

(***************************************************************************)
(* stats/trade_types.py: calculate_tiltmeter                               *)
(***************************************************************************)
MINUTES_PER_DAY == 1440
TILT_START == 100
RECENT_TRADES == 5

\* df_sorted['close_time'].dt.date
date_of(close_time) == close_time \div MINUTES_PER_DAY

\* df_sorted['is_loss'].groupby((~df_sorted['is_loss']).cumsum()).cumsum():
\* the group of a row is the number of non-losing rows up to it, and its
\* value the number of losing rows of its group up to it.
tilt_loss_streak(d) ==
    LET n      == Len(d)
        group  == Frame([i \in 1..n |-> Cardinality({j \in 1..i : ~(d[j].pnl < 0)})])
    IN  Frame([i \in 1..n |->
            Cardinality({j \in 1..i : group[j] = group[i] /\ d[j].pnl < 0})])

\* .shift(1).fillna(0)
shift1_fill0(series) ==
    Frame([i \in 1..Len(series) |-> IF i = 1 THEN 0 ELSE series[i - 1]])

\* (df_sorted['close_time'] - df_sorted['close_time'].shift(1)) in minutes
diff_close_time(d) ==
    Frame([i \in 1..Len(d) |->
        IF i = 1 THEN NaN ELSE <<d[i].close_time - d[i - 1].close_time>>])

\* df_sorted.tail(5)
tail_rows(d, k) == IF Len(d) <= k THEN d ELSE SubSeq(d, Len(d) - k + 1, Len(d))

CountTrue(mask) == Cardinality({i \in 1..Len(mask) : mask[i]})

\* Mutant: the lower tier is tested by `if`, not `elif`, so both apply.
tier_both(st, above_high, high, high_alert, above_low, low, low_alert) ==
    LET s1 == IF above_high
              THEN [score |-> st.score - high, alerts |-> Append(st.alerts, high_alert)]
              ELSE st
    IN  IF above_low
        THEN [score |-> s1.score - low, alerts |-> Append(s1.alerts, low_alert)]
        ELSE s1

\* if <high>: score -= high; alerts.append(..) elif <low>: score -= low; ...
tier(st, above_high, high, high_alert, above_low, low, low_alert) ==
    IF above_high
    THEN [score |-> st.score - high, alerts |-> Append(st.alerts, high_alert)]
    ELSE IF above_low
    THEN [score |-> st.score - low, alerts |-> Append(st.alerts, low_alert)]
    ELSE st

\* the recent-losses tier: its lower branch appends no alert
tier_recent(st, recent_losses) ==
    IF recent_losses >= 4
    THEN [score |-> st.score - 15, alerts |-> Append(st.alerts, "Serie de pertes recente")]
    ELSE IF recent_losses >= 3
    THEN [score |-> st.score - 8, alerts |-> st.alerts]
    ELSE st

\* max(0, min(100, score))
clamp_score(score) ==
    LET m == IF score < 100 THEN score ELSE 100
    IN  IF m > 0 THEN m ELSE 0

\* Mutant: the bounds are tested with > instead of >=.
tilt_status_strict(score) ==
    IF score > 80 THEN [status |-> "excellent", emoji |-> "green"]
    ELSE IF score > 60 THEN [status |-> "good", emoji |-> "yellow"]
    ELSE IF score > 40 THEN [status |-> "warning", emoji |-> "orange"]
    ELSE [status |-> "tilt", emoji |-> "red"]

tilt_status(score) ==
    IF score >= 80 THEN [status |-> "excellent", emoji |-> "green"]
    ELSE IF score >= 60 THEN [status |-> "good", emoji |-> "yellow"]
    ELSE IF score >= 40 THEN [status |-> "warning", emoji |-> "orange"]
    ELSE [status |-> "tilt", emoji |-> "red"]

\* The shares are compared as exact fractions: count / n * 100 > t iff
\* 100 * count > t * n, and the mean of the per-date sizes n / dates > t iff
\* n > t * dates (the float comparison agrees for every n below 60).
\* avg_trades_per_day, a float rounded for display, is left out of the record.
calculate_tiltmeter(d) ==
    IF Len(d) = 0 THEN [score |-> 100, status |-> "neutral", alerts |-> <<>>]
    ELSE
    LET n            == Len(d)
        df_sorted    == sort_values_close_time(d)
        prev_streak  == shift1_fill0(tilt_loss_streak(df_sorted))
        revenge      == CountTrue(Frame([i \in 1..n |-> prev_streak[i] >= 5]))
        dates        == Cardinality({date_of(df_sorted[i].close_time) : i \in 1..n})
        time_since   == diff_close_time(df_sorted)
        impulsive    == CountTrue(Frame([i \in 1..n |-> LessThan(time_since[i], 5)]))
        last_trades  == tail_rows(df_sorted, RECENT_TRADES)
        recent_losses == CountTrue(Frame([i \in 1..Len(last_trades) |->
                                             last_trades[i].pnl < 0]))
        s0 == [score |-> TILT_START, alerts |-> <<>>]
        s1 == tier(s0, 100 * revenge > 20 * n, 25, "Revenge trading detecte",
                       100 * revenge > 10 * n, 15, "Tendance au revenge trading")
        s2 == tier(s1, n > 15 * dates, 20, "Overtrading severe",
                       n > 10 * dates, 10, "Tendance a l'overtrading")
        s3 == tier(s2, 100 * impulsive > 30 * n, 20, "Trop de trades impulsifs",
                       100 * impulsive > 15 * n, 10, "Trades impulsifs frequents")
        s4 == tier_recent(s3, recent_losses)
        score  == clamp_score(s4.score)
        status == tilt_status(score)
    IN  [score         |-> score,
         status        |-> status.status,
         emoji         |-> status.emoji,
         alerts        |-> s4.alerts,
         revenge_pct   |-> pct_tenths(revenge, n),
         impulsive_pct |-> pct_tenths(impulsive, n)]

(***************************************************************************)
(* app.py: the pipeline                                                    *)
(***************************************************************************)
\* {}: nothing computed yet
NoStats == <<>>

Init ==
    /\ df = <<>>
    /\ stage = "loading"
    /\ df_prev = <<>>
    /\ df_filtered = <<>>
    /\ selected_symbols = {}
    /\ behavioral_stats = NoStats
    /\ tiltmeter = NoStats
    /\ loaded_runs = 0
    /\ nb_trades = 0
    /\ alerts = <<>>
    /\ error = ""
    /\ trade_dna = NoStats
    /\ mc_stats = NoStats
    /\ mc_stats_prev = NoStats
    /\ n_simulations = 0
    /\ mc_results = <<>>
    /\ stats = NoStats
    /\ returned = NoStats

LastClose(d) == IF d = <<>> THEN SessionStart ELSE d[Len(d)].close_time

\* normalize_data: further position rows of the export are normalised and
\* the frame sorted by close time.
normalize_data(d, raws) ==
    sort_values_close_time(
        d \o Frame([i \in 1..Len(raws) |-> normalize_positions(raws[i])]))

LoadPosition(symbols, pnls, gaps, durations) ==
    \E symbol \in symbols, pnl \in pnls, gap \in gaps, dur \in durations :
        LET close == LastClose(df) + gap
            raw   == [symbol |-> symbol, open_time |-> close - dur,
                      close_time |-> close, pnl |-> pnl]
        IN  df' = normalize_data(df, <<raw>>)

LoadTrade ==
    /\ stage = "loading"
    /\ Len(df) < MaxTrades
    /\ LoadPosition({"BTC_USDT"}, PnLs, CloseGaps, Durations)
    /\ UNCHANGED <<stage, df_prev, df_filtered, selected_symbols, behavioral_stats, tiltmeter, loaded_runs, outputs>>

\* calculate_discipline_score applied to a loaded frame
Score ==
    /\ stage = "loading"
    /\ df' = calculate_discipline_score(df)
    /\ stage' = "scored"
    /\ UNCHANGED <<df_prev, df_filtered, selected_symbols, behavioral_stats, tiltmeter, loaded_runs, outputs>>

Next == LoadTrade \/ Score

Spec == Init /\ [][Next]_vars

\* label_trades applied to a scored frame
Label ==
    /\ stage = "scored"
    /\ df' = label_trades(df)
    /\ stage' = "labelled"
    /\ UNCHANGED <<df_prev, df_filtered, selected_symbols, behavioral_stats, tiltmeter, loaded_runs, outputs>>

\* A frame of one row that carries any score from 0 to 100: the input of
\* label_trades taken as a function of its own.
LoadScoredRow ==
    /\ stage = "loading"
    /\ \E score \in 0..INITIAL_SCORE, pnl \in ScoredRowPnLs :
          LET raw == [symbol |-> "BTC_USDT", open_time |-> SessionStart,
                      close_time |-> SessionStart + 1, pnl |-> pnl]
          IN  df' = <<SetCol(normalize_positions(raw), "discipline_score", score)>>
    /\ stage' = "scored"
    /\ UNCHANGED <<df_prev, df_filtered, selected_symbols, behavioral_stats, tiltmeter, loaded_runs, outputs>>

NextLabel == LoadScoredRow \/ Label

SpecLabel == Init /\ [][NextLabel]_vars

\* app.py:238-239  df = calculate_discipline_score(df); df = label_trades(df)
Analyse ==
    /\ stage = "loading"
    /\ df' = label_trades(calculate_discipline_score(df))
    /\ stage' = "analysed"
    /\ UNCHANGED <<df_prev, df_filtered, selected_symbols, behavioral_stats, tiltmeter, loaded_runs, outputs>>

\* the scorer and the labeller applied to their own output
Rescore ==
    /\ stage = "analysed"
    /\ df_prev' = df
    /\ df' = label_trades(calculate_discipline_score(df))
    /\ stage' = "rescored"
    /\ UNCHANGED <<df_filtered, selected_symbols, behavioral_stats, tiltmeter, loaded_runs, outputs>>

NextPipeline == LoadTrade \/ Analyse \/ Rescore

SpecPipeline == Init /\ [][NextPipeline]_vars

LoadFilterTrade ==
    /\ stage = "loading"
    /\ Len(df) < MaxFilterTrades
    /\ LoadPosition(Symbols, PnLs, CloseGaps, FilterDurations)
    /\ UNCHANGED <<stage, df_prev, df_filtered, selected_symbols, behavioral_stats, tiltmeter, loaded_runs, outputs>>

\* df[df['symbol'].isin(selected_symbols)].copy()
isin_symbols(d, selected) ==
    SelectRows(d, Frame([i \in 1..Len(d) |-> d[i].symbol \in selected]))

\* app.py:261 and 288-325: the behavioural statistics of the whole frame,
\* then the asset filter; a non-empty selection restricts the frame to the
\* selected symbols and recomputes the statistics on the restricted frame.
Filter ==
    /\ stage = "analysed"
    /\ \E selected \in SUBSET {df[i].symbol : i \in 1..Len(df)} :
          /\ selected_symbols' = selected
          /\ IF selected # {}
             THEN /\ df_filtered' = isin_symbols(df, selected)
                  /\ behavioral_stats' = calculate_behavioral_stats(df_filtered')
             ELSE /\ df_filtered' = df
                  /\ behavioral_stats' = calculate_behavioral_stats(df)
    /\ stage' = "filtered"
    /\ UNCHANGED <<df, df_prev, tiltmeter, loaded_runs, outputs>>

NextFilter == LoadFilterTrade \/ Analyse \/ Filter

SpecFilter == Init /\ [][NextFilter]_vars

\* c position rows of the same PnL, each closed gap minutes after the one
\* before, the first gap minutes after last_close.
RunOfTrades(last_close, c, pnl, gap) ==
    [i \in 1..c |->
        [symbol |-> "BTC_USDT", open_time |-> last_close + i * gap - 1,
         close_time |-> last_close + i * gap, pnl |-> pnl]]

\* normalize_data on an export made of runs of alike trades: long enough for
\* the per-day thresholds of the tilt index.
LoadRun ==
    /\ stage = "loading"
    /\ loaded_runs < MaxRuns
    /\ \E c \in 1..MaxRun, pnl \in PnLs, gap \in TiltCloseGaps :
          df' = normalize_data(df, RunOfTrades(LastClose(df), c, pnl, gap))
    /\ loaded_runs' = loaded_runs + 1
    /\ UNCHANGED <<stage, df_prev, df_filtered, selected_symbols, behavioral_stats, tiltmeter, outputs>>

\* app.py:273  tiltmeter = calculate_tiltmeter(df)
Tilt ==
    /\ stage = "loading"
    /\ tiltmeter' = calculate_tiltmeter(df)
    /\ stage' = "tilt"
    /\ UNCHANGED <<df, df_prev, df_filtered, selected_symbols, behavioral_stats, loaded_runs, outputs>>

NextTilt == LoadRun \/ Tilt

SpecTilt == Init /\ [][NextTilt]_vars

(***************************************************************************)
(* Properties of the scorer (specification Spec).                          *)
(***************************************************************************)
\* The frame is the one calculate_discipline_score returned.
Scored == stage = "scored"

\* Number of rows with a strictly shorter duration than row i.
ShorterThan(d, i) ==
    Cardinality({j \in 1..Len(d) : d[j].duration_minutes < d[i].duration_minutes})

\* Row i is at or below the 20th percentile of the durations of d: with n
\* rows the percentile lies at rank 0.2 * (n - 1) of the sorted durations, so
\* a duration of the frame is at or below it iff at most floor((n - 1) / 5)
\* durations are strictly shorter.
AtOrBelow20th(d, i) == ShorterThan(d, i) <= (Len(d) - 1) \div 5

ShortRule(d, i) == Len(d) >= 6 /\ AtOrBelow20th(d, i)

\* The five trades before row i exist and none of them is a win.
FiveLossesBefore(d, i) == i > 5 /\ \A j \in (i - 5)..(i - 1) : ~(d[j].pnl > 0)

\* Row i was opened less than 5 minutes after the open of row i - 1.
OpenedWithin5(d, i) == i > 1 /\ d[i].open_time - d[i - 1].open_time < 5

Ind(b) == IF b THEN 1 ELSE 0

\* C1: after calculate_discipline_score every discipline_score is an integer
\* between 0 and 100.
C1_ScoreInRange ==
    Scored => \A i \in 1..Len(df) :
        df[i].discipline_score \in Int
        /\ 0 <= df[i].discipline_score /\ df[i].discipline_score <= 100

C1_Witness ==
    /\ Scored
    /\ \E i \in 1..Len(df) : df[i].discipline_score = 40
    /\ \E i \in 1..Len(df) : df[i].discipline_score = 100

C3_LossStreakRecurrence ==
    Scored =>
        /\ \A i \in 1..Len(df) :
              df[i].prev_loss_streak =
                 IF i = 1 THEN 0
                 ELSE IF df[i - 1].pnl > 0 THEN 0
                 ELSE df[i - 1].prev_loss_streak + 1
        /\ LET streaks == Column(df, "prev_loss_streak")
           IN  \A k \in 0..Len(df) :
                  iterrows_streaks(SubSeq(df, 1, k), 1, 0, <<>>) = SubSeq(streaks, 1, k)

C3_Witness ==
    /\ Scored
    /\ \E i \in 1..Len(df) : \E j \in 1..Len(df) :
          /\ i < j
          /\ df[i].prev_loss_streak = 2
          /\ df[j - 1].pnl > 0
          /\ df[j].prev_loss_streak = 0
          /\ j < Len(df)
          /\ df[j + 1].prev_loss_streak = 0

\* C4: the first trade has no minutes-since-previous and never receives the
\* impulsivity penalty; for every later trade time_since_prev is its open time
\* minus the previous trade's open time.
C4_FirstTradeNotImpulsive ==
    (Scored /\ Len(df) >= 1) =>
        /\ df[1].time_since_prev = NaN
        /\ df[1].discipline_score = 100 - 30 * Ind(ShortRule(df, 1))
        /\ \A i \in 2..Len(df) :
              df[i].time_since_prev = <<df[i].open_time - df[i - 1].open_time>>

C4_Witness ==
    /\ Scored
    /\ Len(df) >= 2
    /\ df[1].discipline_score = 100
    /\ df[2].time_since_prev = <<2>>
    /\ df[2].discipline_score = 90

\* The short-duration penalty was applied to row i: what is missing from 100
\* beyond the revenge and impulsivity penalties shown by the row's columns.
ShortPenaltyApplied(d, i) ==
    d[i].discipline_score
       = 100 - 30 - 20 * Ind(d[i].prev_loss_streak >= 5)
             - 10 * Ind(LessThan(d[i].time_since_prev, 5))

NoShortPenalty(d, i) ==
    d[i].discipline_score
       = 100 - 20 * Ind(d[i].prev_loss_streak >= 5)
             - 10 * Ind(LessThan(d[i].time_since_prev, 5))

\* C5: with 5 or fewer trades no trade receives the short-duration penalty;
\* with 6 or more it is applied to exactly the trades whose duration is at or
\* below the 20th percentile of the durations of the sequence.
C5_ShortDurationPenalty ==
    Scored =>
        LET duration_20th_times5 ==
                IF Len(df) >= 6 THEN quantile_20_times5(Column(df, "duration_minutes"))
                ELSE 0
        IN  \A i \in 1..Len(df) :
               /\ Len(df) <= 5 => NoShortPenalty(df, i)
               /\ Len(df) >= 6 =>
                     /\ AtOrBelow20th(df, i) => ShortPenaltyApplied(df, i)
                     /\ ~AtOrBelow20th(df, i) => NoShortPenalty(df, i)
                     /\ AtOrBelow20th(df, i)
                          <=> 5 * df[i].duration_minutes <= duration_20th_times5

C5_Witness ==
    /\ Scored
    /\ Len(df) >= 6
    /\ \E i \in 1..Len(df) : AtOrBelow20th(df, i) /\ ShortPenaltyApplied(df, i)
    /\ \E i \in 1..Len(df) : ~AtOrBelow20th(df, i) /\ NoShortPenalty(df, i)
    /\ \E i \in 1..Len(df) : \E j \in 1..Len(df) :
          df[i].duration_minutes = 4 /\ df[j].duration_minutes = 7
          /\ AtOrBelow20th(df, i)

\* C7: scoring and labelling the scored and labelled frame again changes no
\* discipline_score, prev_loss_streak, time_since_prev or trade_label.
C7_RescoreIdempotent ==
    stage = "rescored" =>
        /\ Len(df) = Len(df_prev)
        /\ \A i \in 1..Len(df) :
              /\ df[i].discipline_score = df_prev[i].discipline_score
              /\ df[i].prev_loss_streak = df_prev[i].prev_loss_streak
              /\ df[i].time_since_prev = df_prev[i].time_since_prev
              /\ df[i].trade_label = df_prev[i].trade_label

C7_Witness ==
    /\ stage = "rescored"
    /\ Len(df) >= 6
    /\ \E i \in 1..Len(df) : df_prev[i].discipline_score = 40
    /\ \E i \in 1..Len(df) : df[i].trade_label = "Faux bon trade"

(***************************************************************************)
(* Properties of the labeller (specification SpecLabel).                   *)
(***************************************************************************)
Labels == {"Trade destructeur", "Faux bon trade", "Trade sain"}

\* C6: every trade gets exactly one of the three labels: destructive iff
\* score < 40; false-good iff score >= 40, a win and score < 60; healthy
\* otherwise.  A win with score < 40 is destructive, never false-good.
C6_LabelPrecedence ==
    stage = "labelled" => \A i \in 1..Len(df) :
        LET score == df[i].discipline_score
            win   == df[i].pnl > 0
            label == df[i].trade_label
        IN  /\ label \in Labels
            /\ label = "Trade destructeur" <=> score < 40
            /\ label = "Faux bon trade" <=> (score >= 40 /\ win /\ score < 60)
            /\ label = "Trade sain" <=> ~(score < 40) /\ ~(win /\ score < 60)
            /\ (win /\ score < 40) => label = "Trade destructeur"

C6_Witness ==
    /\ stage = "labelled"
    /\ Len(df) = 1
    /\ df[1].pnl > 0
    /\ df[1].discipline_score = 39
    /\ df[1].trade_label = "Trade destructeur"

(***************************************************************************)
(* Properties of the asset filter (specification SpecFilter).              *)
(***************************************************************************)
\* The pipeline run from scratch on the filtered sequence alone.
FromScratch(d) == label_trades(calculate_discipline_score(d))

\* C8: after a restriction to a symbol subset, loss streak before, minutes
\* since previous, discipline score and label of every filtered trade, and the
\* behavioural statistics, are those of the pipeline run from scratch on the
\* filtered sequence alone.
C8_FilterRecomputes ==
    (stage = "filtered" /\ selected_symbols # {}) =>
        LET scratch == FromScratch(df_filtered)
        IN  /\ \A i \in 1..Len(df_filtered) :
                  /\ df_filtered[i].prev_loss_streak = scratch[i].prev_loss_streak
                  /\ df_filtered[i].time_since_prev = scratch[i].time_since_prev
                  /\ df_filtered[i].discipline_score = scratch[i].discipline_score
                  /\ df_filtered[i].trade_label = scratch[i].trade_label
            /\ behavioral_stats = calculate_behavioral_stats(scratch)

(***************************************************************************)
(* Properties of the tilt index (specification SpecTilt).                  *)
(***************************************************************************)
\* C9: for a non-empty sequence the tilt score lies in [0, 100] and the
\* status is determined by the score: excellent iff >= 80, good iff in
\* [60, 80), warning iff in [40, 60), tilt iff < 40.
C9_TiltScoreAndStatus ==
    (stage = "tilt" /\ Len(df) > 0) =>
        LET score  == tiltmeter.score
            status == tiltmeter.status
        IN  /\ score \in Int /\ 0 <= score /\ score <= 100
            /\ status \in {"excellent", "good", "warning", "tilt"}
            /\ status = "excellent" <=> score >= 80
            /\ status = "good" <=> (60 <= score /\ score < 80)
            /\ status = "warning" <=> (40 <= score /\ score < 60)
            /\ status = "tilt" <=> score < 40

C9_Witness ==
    /\ stage = "tilt"
    /\ Len(df) = 16
    /\ tiltmeter.score = 20
    /\ tiltmeter.status = "tilt"

\* The deduction of one category: its larger tier if that applies, else its
\* smaller tier if that applies, else nothing.
Deduction(above_high, high, above_low, low) ==
    IF above_high THEN high ELSE IF above_low THEN low ELSE 0

\* Trades that follow five or more consecutive losing trades.
RevengeCount(d) ==
    Cardinality({i \in 1..Len(d) : i > 5 /\ \A j \in (i - 5)..(i - 1) : d[j].pnl < 0})

TradingDays(d) == Cardinality({d[i].close_time \div 1440 : i \in 1..Len(d)})

\* Trades closed less than 5 minutes after the previous close.
ImpulsiveCount(d) ==
    Cardinality({i \in 2..Len(d) : d[i].close_time - d[i - 1].close_time < 5})

\* Losing trades among the last 5.
RecentLosses(d) ==
    Cardinality({i \in 1..Len(d) : i > Len(d) - 5 /\ d[i].pnl < 0})

\* C10: the tilt score is 100 minus one deduction per category, the larger
\* applicable tier only: revenge share > 20% 25 else > 10% 15; trades per day
\* > 15 20 else > 10 10; impulsive share > 30% 20 else > 15% 10; losses among
\* the last 5 trades >= 4 15 else >= 3 8; otherwise 0.
C10_TiltDeductions ==
    (stage = "tilt" /\ Len(df) > 0) =>
        LET n == Len(df)
        IN  tiltmeter.score =
               100 - Deduction(100 * RevengeCount(df) > 20 * n, 25,
                               100 * RevengeCount(df) > 10 * n, 15)
                   - Deduction(n > 15 * TradingDays(df), 20,
                               n > 10 * TradingDays(df), 10)
                   - Deduction(100 * ImpulsiveCount(df) > 30 * n, 20,
                               100 * ImpulsiveCount(df) > 15 * n, 10)
                   - Deduction(RecentLosses(df) >= 4, 15, RecentLosses(df) >= 3, 8)

C10_Witness ==
    /\ stage = "tilt"
    /\ Len(df) = 11
    /\ 100 * RevengeCount(df) > 20 * Len(df)
    /\ TradingDays(df) = 1
    /\ 100 * ImpulsiveCount(df) > 30 * Len(df)
    /\ RecentLosses(df) = 5
    /\ tiltmeter.score = 30

(***************************************************************************)
(* app.py:281-286: the sidebar reads the tilt record.                      *)
(***************************************************************************)
\* dict[key] on a dict without the key raises KeyError
HasKeys(dict, keys) == keys \subseteq DOMAIN dict

\* tiltmeter_placeholder.markdown(f"**{tiltmeter['emoji']} {tiltmeter['score']}/100**")
\* if tiltmeter['status'] == 'tilt': ...; for alert in tiltmeter['alerts'][:2]: ...
sidebar_tiltmeter(t) ==
    IF ~HasKeys(t, {"emoji", "score", "status", "alerts"})
    THEN [raised |-> "KeyError", markdown |-> <<>>, captions |-> <<>>]
    ELSE [raised   |-> "",
          markdown |-> <<t.emoji, t.score>>,
          captions |-> SubSeq(t.alerts, 1, IF Len(t.alerts) < 2 THEN Len(t.alerts) ELSE 2)]

\* The fields of a fully populated tilt record.
TiltFields == {"score", "status", "emoji", "alerts", "revenge_pct", "impulsive_pct"}

\* C11: for every input, the empty trade sequence included, the record
\* calculate_tiltmeter returns holds score, status, emoji, alerts and the
\* contributing percentages, and the sidebar reads it without an error.
C11_TiltRecordPopulated ==
    stage = "tilt" =>
        /\ TiltFields \subseteq DOMAIN tiltmeter
        /\ sidebar_tiltmeter(tiltmeter).raised = ""

(***************************************************************************)
(* stats/behavioral_stats.py: detect_behavioral_patterns                   *)
(* Shares are held in tenths of a percent, as pct_tenths returns them.     *)
(***************************************************************************)
REVENGE_ALERT_PCT == 15
QUICK_ENTRY_ALERT_PCT == 20
LOSS_STREAK_ALERT == 5

\* stats.get(key, default)
dict_get(dict, key, default) == IF key \in DOMAIN dict THEN dict[key] ELSE default

\* stats.get('..._pct', 0) > threshold
share_above(pct_in_tenths, threshold) == pct_in_tenths > 10 * threshold

\* alerts.append({'type': .., 'severity': .., ..}) under `if cond`
append_if(list, cond, type, severity) ==
    IF cond THEN Append(list, [type |-> type, severity |-> severity]) ELSE list

detect_behavioral_patterns(st) ==
    LET a0 == <<>>
        a1 == append_if(a0, share_above(dict_get(st, "revenge_pct", 0), REVENGE_ALERT_PCT),
                        "REVENGE TRADING", "HIGH")
        a2 == append_if(a1, share_above(dict_get(st, "quick_entry_pct", 0),
                                        QUICK_ENTRY_ALERT_PCT),
                        "OVERTRADING", "HIGH")
        a3 == append_if(a2, dict_get(st, "patient_pnl", 0) > 0
                            /\ dict_get(st, "quick_duration_pnl", 0) < 0,
                        "IMPATIENCE", "MEDIUM")
        a4 == append_if(a3, dict_get(st, "max_loss_streak", 0) >= LOSS_STREAK_ALERT,
                        "TILT POTENTIEL", "MEDIUM")
    IN  append_if(a4, dict_get(st, "pnl_after_3_losses", 0) < 0,
                  "POST-LOSS BEHAVIOR", "HIGH")

\* A session of n trades closed 10 minutes apart: an opening run of losing
\* trades, then winning trades (n, length of the run of losses).
SessionShapes == {<<6, 5>>, <<20, 8>>}
SessionGap == 10

\* normalize_data on the export of one such session
LoadSession ==
    /\ stage = "loading"
    /\ df = <<>>
    /\ \E shape \in SessionShapes :
          LET n      == shape[1]
              losses == shape[2]
              lost   == RunOfTrades(SessionStart, losses, -1, SessionGap)
              won    == RunOfTrades(SessionStart + losses * SessionGap, n - losses, 1,
                                    SessionGap)
          IN  df' = normalize_data(<<>>, lost \o won)
    /\ UNCHANGED <<stage, df_prev, df_filtered, selected_symbols, behavioral_stats, tiltmeter,
                   loaded_runs, outputs>>

\* app.py:261  behavioral_stats = calculate_behavioral_stats(df)
Summarise ==
    /\ stage = "analysed"
    /\ behavioral_stats' = calculate_behavioral_stats(df)
    /\ nb_trades' = Len(df)
    /\ stage' = "stats"
    /\ UNCHANGED <<df, df_prev, df_filtered, selected_symbols, tiltmeter, loaded_runs,
                   alerts, error, trade_dna, monte_carlo, stats, returned>>

\* Longer frames, given by their counts: the number of trades with the
\* numbers of revenge trades and of quick entries around 15% and 20% of it.
StatsShapes ==
    { [n |-> 20,  revenge_counts |-> {2, 3, 4},    quick_entry_counts |-> {3, 4, 5}],
      [n |-> 113, revenge_counts |-> {16, 17, 18}, quick_entry_counts |-> {22, 23, 24}] }
PnLSums == {-1, 0, 1}
StreaksAround5 == {4, 5, 6}

\* behavioral_stats.py:53-66: the dict calculate_behavioral_stats returns for
\* a frame of n trades with these counts and sums (the fields the alerts
\* depend on), the shares rounded as lines 61 and 65 round them.
LoadStats ==
    /\ stage = "loading"
    /\ df = <<>>
    /\ \E shape \in StatsShapes :
       \E revenge_count \in shape.revenge_counts, quick \in shape.quick_entry_counts,
          patient_pnl \in PnLSums, quick_duration_pnl \in PnLSums,
          max_loss_streak \in StreaksAround5, pnl_after_3 \in PnLSums :
          /\ nb_trades' = shape.n
          /\ behavioral_stats' =
                [max_loss_streak    |-> max_loss_streak,
                 pnl_after_3_losses |-> pnl_after_3,
                 quick_entry_count  |-> quick,
                 quick_entry_pct    |-> pct_tenths(quick, shape.n),
                 patient_pnl        |-> patient_pnl,
                 quick_duration_pnl |-> quick_duration_pnl,
                 revenge_count      |-> revenge_count,
                 revenge_pct        |-> pct_tenths(revenge_count, shape.n)]
    /\ stage' = "stats"
    /\ UNCHANGED <<df, df_prev, df_filtered, selected_symbols, tiltmeter, loaded_runs,
                   alerts, error, trade_dna, monte_carlo, stats, returned>>

\* app.py:657  alerts = detect_behavioral_patterns(behavioral_stats)
Detect ==
    /\ stage = "stats"
    /\ alerts' = detect_behavioral_patterns(behavioral_stats)
    /\ stage' = "alerts"
    /\ UNCHANGED <<df, df_prev, df_filtered, selected_symbols, behavioral_stats, tiltmeter,
                   loaded_runs, nb_trades, error, trade_dna, monte_carlo, stats,
                   returned>>

NextAlerts == LoadStats \/ LoadSession \/ Analyse \/ Summarise \/ Detect

SpecAlerts == Init /\ [][NextAlerts]_vars

(***************************************************************************)
(* Properties of the alerts (specification SpecAlerts).                    *)
(***************************************************************************)
\* The statistic the alerts were computed from, 0 when the dict lacks it.
Stat(key) == IF key \in DOMAIN behavioral_stats THEN behavioral_stats[key] ELSE 0

HasAlert(type, severity) ==
    \E i \in 1..Len(alerts) : alerts[i] = [type |-> type, severity |-> severity]

CountAlerts(type) == Cardinality({i \in 1..Len(alerts) : alerts[i].type = type})

\* C12: a HIGH alert exactly when the revenge share > 15%, a HIGH alert
\* exactly when the quick-entry share > 20%, a HIGH alert exactly when the PnL
\* after exactly 3 losses is negative, a MEDIUM alert exactly when the patient
\* PnL > 0 and the short-trade PnL < 0, a MEDIUM alert exactly when the longest
\* loss streak >= 5; no other alert, each at most once, and a share exactly at
\* 15% or 20% raises none.  The shares are revenge_count and
\* quick_entry_count out of the number of trades.
C12_AlertThresholds ==
    stage = "alerts" =>
        /\ HasAlert("REVENGE TRADING", "HIGH")
              <=> 100 * Stat("revenge_count") > 15 * nb_trades
        /\ HasAlert("OVERTRADING", "HIGH")
              <=> 100 * Stat("quick_entry_count") > 20 * nb_trades
        /\ HasAlert("POST-LOSS BEHAVIOR", "HIGH") <=> Stat("pnl_after_3_losses") < 0
        /\ HasAlert("IMPATIENCE", "MEDIUM")
              <=> (Stat("patient_pnl") > 0 /\ Stat("quick_duration_pnl") < 0)
        /\ HasAlert("TILT POTENTIEL", "MEDIUM") <=> Stat("max_loss_streak") >= 5
        /\ \A i \in 1..Len(alerts) :
              /\ alerts[i] \in
                    {[type |-> "REVENGE TRADING", severity |-> "HIGH"],
                     [type |-> "OVERTRADING", severity |-> "HIGH"],
                     [type |-> "POST-LOSS BEHAVIOR", severity |-> "HIGH"],
                     [type |-> "IMPATIENCE", severity |-> "MEDIUM"],
                     [type |-> "TILT POTENTIEL", severity |-> "MEDIUM"]}
              /\ CountAlerts(alerts[i].type) = 1

\* C13: the alert list is severity-ranked: no MEDIUM alert appears before a
\* HIGH alert.
C13_SeverityRanked ==
    stage = "alerts" =>
        \A i \in 1..Len(alerts) : \A j \in 1..Len(alerts) :
            i < j => ~(alerts[i].severity = "MEDIUM" /\ alerts[j].severity = "HIGH")

(***************************************************************************)
(* Calls of the engine stages.  A stage receives the caller's frame; what   *)
(* it returns, what it raises and the caller's frame after the call.       *)
(***************************************************************************)
Returned(ret, input) == [raised |-> "", ret |-> ret, input |-> input]

\* raise <exc>: nothing is returned
Raised(exc, input) == [raised |-> exc, ret |-> NoStats, input |-> input]

\* the columns of a frame (those of its rows)
Columns(d) == IF d = <<>> THEN {} ELSE DOMAIN d[1]


\* Mutant: the stage assigns its columns to the frame it was passed.
caller_frame_in_place(copied, d, assigned) == assigned

\* The caller's frame after a stage that assigned columns: untouched when the
\* stage began with df = df.copy(), the assigned frame otherwise.
caller_frame(copied, d, assigned) == IF copied THEN d ELSE assigned

(***************************************************************************)
(* data_loader.py: the hour column.                                        *)
(***************************************************************************)
\* df['hour'] = df['close_time'].dt.hour
hour_of(close_time) == (close_time % MINUTES_PER_DAY) \div 60

with_hour(d) == Frame([i \in 1..Len(d) |-> SetCol(d[i], "hour", hour_of(d[i].close_time))])

(***************************************************************************)
(* ml/clustering.py: perform_clustering                                    *)
(***************************************************************************)
N_CLUSTERS == 3

CLUSTER_FEATURES == {"duration_minutes", "hour", "pnl", "discipline_score"}


\* Mutant: the check of the features is dropped.
missing_features_unchecked(d, features) == {}

\* missing = [f for f in features if f not in df.columns]
missing_features(d, features) == {f \in features : f \notin Columns(d)}

\* KMeans(n_clusters=n_clusters, random_state=42, n_init=10).fit_predict:
\* scikit-learn raises ValueError when there are fewer samples than clusters
\* (n_clusters is passed on as received); otherwise every sample gets a label
\* in 0..n_clusters-1.  `labels` is the labelling KMeans computes.
perform_clustering(d, n_clusters, labels) ==
    LET copied  == TRUE
        missing == missing_features(d, CLUSTER_FEATURES)
    IN  IF missing # {} THEN Raised("ValueError", d)
        ELSE IF Len(d) < n_clusters THEN Raised("ValueError", d)
        ELSE LET assigned == Frame([i \in 1..Len(d) |-> SetCol(d[i], "cluster", labels[i])])
             IN  Returned(assigned, caller_frame(copied, d, assigned))

\* the labellings fit_predict can return for n samples
Labellings(n, n_clusters) == [1..n -> 0..(n_clusters - 1)]

(***************************************************************************)
(* ml/dna.py: extract_trade_dna                                            *)
(* The profile is given by cluster_id, nb_trades and pnl_total.            *)
(***************************************************************************)
\* df[df['cluster'] == c]
cluster_trades(d, c) == SelectRows(d, Frame([i \in 1..Len(d) |-> d[i].cluster = c]))

\* df.groupby('cluster')['pnl'].sum(): one entry per cluster present
cluster_pnl(d) ==
    [c \in {d[i].cluster : i \in 1..Len(d)} |-> SeqSum(Column(cluster_trades(d, c), "pnl"))]


\* Mutant: idxmin
idxmin(series) ==
    CHOOSE c \in DOMAIN series :
        \A o \in DOMAIN series : series[c] < series[o] \/ (series[c] = series[o] /\ c <= o)

\* Series.idxmax(): the first index, in the order of the group keys, of the
\* largest value
idxmax(series) ==
    CHOOSE c \in DOMAIN series :
        \A o \in DOMAIN series : series[c] > series[o] \/ (series[c] = series[o] /\ c <= o)

extract_trade_dna(d) ==
    IF d = <<>> \/ "cluster" \notin Columns(d) THEN Raised("ValueError", d)
    ELSE LET best_cluster == idxmax(cluster_pnl(d))
             dna_trades   == cluster_trades(d, best_cluster)
         IN  Returned([cluster_id |-> best_cluster,
                       nb_trades  |-> Len(dna_trades),
                       pnl_total  |-> SeqSum(Column(dna_trades, "pnl"))],
                      d)

(***************************************************************************)
(* app.py: scoring, labelling, clustering, then the DNA profile.           *)
(***************************************************************************)
MaxClusterTrades == 4
ClusterPnLs == {-1, 1, 2}

LoadClusterTrade ==
    /\ stage = "loading"
    /\ Len(df) < MaxClusterTrades
    /\ \E pnl \in ClusterPnLs :
          LET close == LastClose(df) + 2
              raw   == [symbol |-> "BTC_USDT", open_time |-> close - 1,
                        close_time |-> close, pnl |-> pnl]
          IN  df' = with_hour(normalize_data(df, <<raw>>))
    /\ UNCHANGED <<stage, df_prev, df_filtered, selected_symbols, behavioral_stats, tiltmeter,
                   loaded_runs, outputs>>

\* app.py:236-247  df = calculate_discipline_score(df); df = label_trades(df);
\* df = perform_clustering(df), in a try block whose handler stops the run.
Cluster ==
    /\ stage = "loading"
    /\ \E labels \in Labellings(Len(df), N_CLUSTERS) :
          LET labelled == label_trades(calculate_discipline_score(df))
              call     == perform_clustering(labelled, N_CLUSTERS, labels)
          IN  /\ error' = call.raised
              /\ IF call.raised # ""
                 THEN df' = labelled /\ stage' = "stopped"
                 ELSE df' = call.ret /\ stage' = "clustered"
    /\ UNCHANGED <<df_prev, df_filtered, selected_symbols, behavioral_stats, tiltmeter,
                   loaded_runs, nb_trades, alerts, trade_dna, monte_carlo, stats,
                   returned>>

\* app.py:325-332  df_filtered = df (no symbol selected);
\* try: trade_dna = extract_trade_dna(df_filtered)  except: trade_dna = None
ExtractDNA ==
    /\ stage = "clustered"
    /\ df_filtered' = df
    /\ LET call == extract_trade_dna(df)
       IN  trade_dna' = IF call.raised # "" THEN NoStats ELSE call.ret
    /\ stage' = "dna"
    /\ UNCHANGED <<df, df_prev, selected_symbols, behavioral_stats, tiltmeter, loaded_runs,
                   nb_trades, alerts, error, monte_carlo, stats, returned>>

\* perform_clustering called on a frame that was not scored
ClusterBeforeScoring ==
    /\ stage = "loading"
    /\ \E labels \in Labellings(Len(df), N_CLUSTERS) :
          LET call == perform_clustering(df, N_CLUSTERS, labels)
          IN  /\ df_prev' = df
              /\ df' = call.input
              /\ returned' = call.ret
              /\ error' = call.raised
    /\ stage' = "cluster_called"
    /\ UNCHANGED <<df_filtered, selected_symbols, behavioral_stats, tiltmeter, loaded_runs,
                   nb_trades, alerts, trade_dna, monte_carlo, stats>>

\* extract_trade_dna called on a scored and labelled frame that was not
\* clustered
ExtractBeforeClustering ==
    /\ stage = "analysed"
    /\ LET call == extract_trade_dna(df)
       IN  /\ df_prev' = df
           /\ df' = call.input
           /\ returned' = call.ret
           /\ error' = call.raised
    /\ stage' = "dna_called"
    /\ UNCHANGED <<df_filtered, selected_symbols, behavioral_stats, tiltmeter, loaded_runs,
                   nb_trades, alerts, trade_dna, monte_carlo, stats>>

NextCluster ==
    \/ LoadClusterTrade
    \/ Cluster
    \/ ExtractDNA
    \/ ClusterBeforeScoring
    \/ Analyse
    \/ ExtractBeforeClustering

SpecCluster == Init /\ [][NextCluster]_vars

(***************************************************************************)
(* Properties of clustering and DNA extraction (specification SpecCluster). *)
(***************************************************************************)
\* C14: asked for more clusters than there are trades (1 or 2 trades, 3
\* clusters), perform_clustering does not fail: the cluster count is reduced
\* to the trade count and every trade receives a cluster id.
C14_ClusterCountReduced ==
    (stage \in {"clustered", "stopped"} /\ Len(df) >= 1) =>
        /\ stage = "clustered"
        /\ error = ""
        /\ \A i \in 1..Len(df) :
              /\ "cluster" \in DOMAIN df[i]
              /\ df[i].cluster \in 0..(N_CLUSTERS - 1)
              /\ df[i].cluster < Len(df)

\* C15: perform_clustering on a frame without discipline_score raises and
\* assigns no cluster; extract_trade_dna on a frame without cluster raises and
\* returns no profile; the frame passed is left unchanged and nothing is
\* returned in place of the failure.
C15_PreconditionsRaise ==
    /\ stage = "cluster_called" =>
          /\ error = "ValueError"
          /\ returned = NoStats
          /\ df = df_prev
          /\ \A i \in 1..Len(df) : "cluster" \notin DOMAIN df[i]
    /\ stage = "dna_called" =>
          /\ error = "ValueError"
          /\ returned = NoStats
          /\ trade_dna = NoStats
          /\ df = df_prev

C15_Witness ==
    /\ stage = "cluster_called"
    /\ Len(df) = 4
    /\ \A i \in 1..Len(df) : "discipline_score" \notin DOMAIN df[i]
    /\ error = "ValueError"

\* Total PnL and number of the trades of d assigned to cluster c.
RECURSIVE PnlOfCluster(_, _, _)
PnlOfCluster(d, c, i) ==
    IF i = 0 THEN 0
    ELSE PnlOfCluster(d, c, i - 1) + (IF d[i].cluster = c THEN d[i].pnl ELSE 0)

TradesOfCluster(d, c) == Cardinality({i \in 1..Len(d) : d[i].cluster = c})

\* C16: the cluster extract_trade_dna selects is present in the frame, its
\* total PnL is at least that of every other cluster present, and nb_trades
\* and pnl_total are the count and the PnL sum of the trades of that cluster.
C16_DnaIsBestCluster ==
    stage = "dna" =>
        LET best == trade_dna.cluster_id
        IN  /\ \E i \in 1..Len(df) : df[i].cluster = best
            /\ \A i \in 1..Len(df) :
                  PnlOfCluster(df, best, Len(df)) >= PnlOfCluster(df, df[i].cluster, Len(df))
            /\ trade_dna.nb_trades = TradesOfCluster(df, best)
            /\ trade_dna.pnl_total = PnlOfCluster(df, best, Len(df))

C16_Witness ==
    /\ stage = "dna"
    /\ Len(df) = 4
    /\ Cardinality({df[i].cluster : i \in 1..Len(df)}) = 3
    /\ trade_dna.cluster_id = 1
    /\ trade_dna.nb_trades = 2
    /\ trade_dna.pnl_total = 1
    /\ PnlOfCluster(df, 0, 4) = -1
    /\ PnlOfCluster(df, 2, 4) = 1

(***************************************************************************)
(* stats/robustness.py: monte_carlo_simulation                             *)
(* In this part a PnL is a whole number of thousandths of a dollar (the    *)
(* export gives realized PnL to more than two decimals) and a field of the *)
(* summary, which the code rounds to two decimals, a whole number of       *)
(* hundredths.                                                             *)
(***************************************************************************)
\* round(x, 2) of x = num / den thousandths, in hundredths
round2(num, den) == round_half_even(num, 10 * den)

\* np.cumsum
np_cumsum(values) == Frame([i \in 1..Len(values) |-> SeqSum(SubSeq(values, 1, i))])

series_max(values) == CHOOSE v \in {values[i] : i \in 1..Len(values)} :
                          \A i \in 1..Len(values) : values[i] <= v

series_min(values) == CHOOSE v \in {values[i] : i \in 1..Len(values)} :
                          \A i \in 1..Len(values) : v <= values[i]

\* Mutant: the running maximum starts from a balance of 0.
maximum_accumulate_from_zero(values) ==
    Frame([i \in 1..Len(values) |->
        IF series_max(SubSeq(values, 1, i)) > 0 THEN series_max(SubSeq(values, 1, i)) ELSE 0])

\* np.maximum.accumulate
maximum_accumulate(values) ==
    Frame([i \in 1..Len(values) |-> series_max(SubSeq(values, 1, i))])

\* 20 * Series.quantile(k / 20), pandas' linear interpolation: with s the
\* sorted values (0-based) and h = k / 20 * (n - 1), the quantile is
\* s[floor(h)] + frac(h) * (s[floor(h) + 1] - s[floor(h)]).
quantile_times20(values, k) ==
    LET s   == SortValues(values)
        pos == k * (Len(values) - 1)
        lo  == (pos \div 20) + 1
        rem == pos % 20
    IN  IF rem = 0 THEN 20 * s[lo]
        ELSE 20 * s[lo] + rem * (s[lo + 1] - s[lo])


\* Mutant: the trial resamples the PnL values with replacement.
Resamples(pnls) == [1..Len(pnls) -> {pnls[i] : i \in 1..Len(pnls)}]

\* np.random.permutation(pnls): the arrays it can return.  It draws from
\* numpy's global generator, which monte_carlo_simulation neither seeds nor
\* receives, so every permutation of pnls can come out of any call.
Shuffles(pnls) ==
    {Frame([i \in 1..Len(pnls) |-> pnls[p[i]]]) : p \in Permutations(1..Len(pnls))}

\* the body of the loop for one shuffled array
mc_trial(shuffled) ==
    LET cumsum == np_cumsum(shuffled)
        peak   == maximum_accumulate(cumsum)
    IN  [final_pnl |-> cumsum[Len(cumsum)],
         max_dd    |-> series_min(Frame([i \in 1..Len(cumsum) |-> cumsum[i] - peak[i]]))]

\* results, for the arrays drawn in the n_simulations trials
mc_trials(draws) == Frame([t \in 1..Len(draws) |-> mc_trial(draws[t])])

\* the summary of results
mc_summary(results) ==
    LET n      == Len(results)
        finals == Column(results, "final_pnl")
        dds    == Column(results, "max_dd")
    IN  [mean_pnl   |-> round2(SeqSum(finals), n),
         median_pnl |-> round2(quantile_times20(finals, 10), 20),
         pnl_5th    |-> round2(quantile_times20(finals, 1), 20),
         pnl_95th   |-> round2(quantile_times20(finals, 19), 20),
         worst_pnl  |-> round2(series_min(finals), 1),
         best_pnl   |-> round2(series_max(finals), 1),
         mean_dd    |-> round2(SeqSum(dds), n),
         worst_dd   |-> round2(series_min(dds), 1)]

monte_carlo_simulation(d, draws) ==
    IF Len(d) = 0 THEN NoStats ELSE mc_summary(mc_trials(draws))

MaxMcTrades == 3
MaxSimulations == 2
McPnLs == {-1004, 2004}

LoadMcTrade ==
    /\ stage = "loading"
    /\ Len(df) < MaxMcTrades
    /\ LoadPosition({"BTC_USDT"}, McPnLs, CloseGaps, {1})
    /\ UNCHANGED <<stage, df_prev, df_filtered, selected_symbols, behavioral_stats, tiltmeter,
                   loaded_runs, outputs>>

\* one call mc_stats = monte_carlo_simulation(df, n_simulations=n)
Simulate(n) ==
    \E draws \in [1..n -> Shuffles(Column(df, "pnl"))] :
        /\ mc_stats' = monte_carlo_simulation(df, draws)
        /\ mc_results' = IF Len(df) = 0 THEN <<>> ELSE mc_trials(draws)
        /\ mc_stats_prev' = mc_stats
        /\ n_simulations' = n

\* app.py:715-717  the button runs the simulation
RunMonteCarlo ==
    /\ stage = "loading"
    /\ \E n \in 1..MaxSimulations : Simulate(n)
    /\ stage' = "simulated"
    /\ UNCHANGED <<df, df_prev, df_filtered, selected_symbols, behavioral_stats, tiltmeter,
                   loaded_runs, nb_trades, alerts, error, trade_dna, stats, returned>>

\* the button pressed again: same frame, same trial count
RunMonteCarloAgain ==
    /\ stage = "simulated"
    /\ Simulate(n_simulations)
    /\ stage' = "resimulated"
    /\ UNCHANGED <<df, df_prev, df_filtered, selected_symbols, behavioral_stats, tiltmeter,
                   loaded_runs, nb_trades, alerts, error, trade_dna, stats, returned>>

NextMonteCarlo == LoadMcTrade \/ RunMonteCarlo \/ RunMonteCarloAgain

SpecMonteCarlo == Init /\ [][NextMonteCarlo]_vars

(***************************************************************************)
(* Properties of the robustness simulator (specification SpecMonteCarlo).  *)
(***************************************************************************)
Simulated == stage \in {"simulated", "resimulated"}

\* C17: two runs of monte_carlo_simulation on the same PnL vector with the
\* same trial count (and the same seed, which the function does not take)
\* return identical summaries.
C17_RunsReproducible ==
    stage = "resimulated" => mc_stats = mc_stats_prev

\* Sum of the PnL values of the frame (thousandths).
InputSum == SeqSum(Column(df, "pnl"))

FinalFields == {"mean_pnl", "median_pnl", "pnl_5th", "pnl_95th", "worst_pnl", "best_pnl"}

Inf == [kind |-> "inf", value |-> 0]

Finite(hundredths) == [kind |-> "finite", value |-> hundredths]

\* round(num / den, 2) for den > 0
ratio(num, den) == Finite(round_half_even(100 * num, den))

abs(x) == IF x < 0 THEN -x ELSE x

\* df[df['pnl'] > 0] and df[df['pnl'] < 0]
wins_of(d) == SelectRows(d, Frame([i \in 1..Len(d) |-> d[i].pnl > 0]))

losses_of(d) == SelectRows(d, Frame([i \in 1..Len(d) |-> d[i].pnl < 0]))

total_gains(d) == SeqSum(Column(wins_of(d), "pnl"))

total_losses(d) == abs(SeqSum(Column(losses_of(d), "pnl")))

\* (cumulative_pnl - cumulative_pnl.cummax()).min()
max_drawdown(d) ==
    LET cumulative == np_cumsum(Column(d, "pnl"))
        rolling    == maximum_accumulate(cumulative)
    IN  series_min(Frame([i \in 1..Len(d) |-> cumulative[i] - rolling[i]]))

\* avg_win / avg_loss with avg_win = gains / nb_wins (0 without a win) and
\* avg_loss = losses / nb_losses, for a frame with at least one loss
avg_win_over_avg_loss(d) ==
    IF Len(wins_of(d)) = 0 THEN Finite(0)
    ELSE ratio(total_gains(d) * Len(losses_of(d)), total_losses(d) * Len(wins_of(d)))

\* global_stats.py: profit_factor, recovery_factor, avg_rr
calculate_global_stats(d) ==
    IF Len(d) = 0 THEN NoStats
    ELSE [profit_factor   |-> IF total_losses(d) > 0
                              THEN ratio(total_gains(d), total_losses(d)) ELSE Inf,
          recovery_factor |-> IF max_drawdown(d) < 0
                              THEN ratio(abs(SeqSum(Column(d, "pnl"))), abs(max_drawdown(d)))
                              ELSE Inf,
          avg_rr          |-> IF Len(losses_of(d)) > 0 THEN avg_win_over_avg_loss(d) ELSE Inf]

\* df[df['direction'] == direction]
direction_trades(d, direction) ==
    SelectRows(d, Frame([i \in 1..Len(d) |-> d[i].direction = direction]))

\* direction_stats.py: results[direction.lower()] (count, avg_rr)
direction_entry(dir_df) ==
    IF Len(dir_df) = 0 THEN [count |-> 0, avg_rr |-> Finite(0)]
    ELSE [count  |-> Len(dir_df),
          avg_rr |-> IF Len(losses_of(dir_df)) > 0 THEN avg_win_over_avg_loss(dir_df)
                     ELSE Finite(0)]

calculate_direction_stats(d) ==
    [long  |-> direction_entry(direction_trades(d, "LONG")),
     short |-> direction_entry(direction_trades(d, "SHORT"))]

SCALP_BELOW == 5
SWING_ABOVE == 60
HIGH_LEVERAGE == 50
DEFAULT_LEVERAGE == 1

\* Mutant: the duration is tested before the leverage.
classify_duration_first(duration_min, leverage) ==
    IF duration_min < SCALP_BELOW THEN "scalp"
    ELSE IF duration_min > SWING_ABOVE THEN "swing"
    ELSE IF leverage >= HIGH_LEVERAGE THEN "high_lev"
    ELSE "standard"

classify_trade_type(duration_min, leverage) ==
    IF leverage >= HIGH_LEVERAGE THEN "high_lev"
    ELSE IF duration_min < SCALP_BELOW THEN "scalp"
    ELSE IF duration_min > SWING_ABOVE THEN "swing"
    ELSE "standard"

\* row.get('leverage', 1)
leverage_of(row) == IF "leverage" \in DOMAIN row THEN row.leverage ELSE DEFAULT_LEVERAGE

add_trade_type_column(d) ==
    LET copied   == TRUE
        assigned == Frame([i \in 1..Len(d) |->
                        SetCol(d[i], "trade_type",
                               classify_trade_type(d[i].duration_minutes, leverage_of(d[i])))])
    IN  Returned(assigned, caller_frame(copied, d, assigned))

TRADE_TYPES == <<"swing", "scalp", "high_lev", "standard">>

\* trade_type.upper()
upper(trade_type) ==
    CASE trade_type = "swing"    -> "SWING"
      [] trade_type = "scalp"    -> "SCALP"
      [] trade_type = "high_lev" -> "HIGH_LEV"
      [] trade_type = "standard" -> "STANDARD"
      [] OTHER -> trade_type

DIRECTIONS == <<"LONG", "SHORT">>

\* the rows appended by the loop over trade types, empty subsets skipped
RECURSIVE trade_type_rows(_, _)
trade_type_rows(d, types) ==
    IF types = <<>> THEN <<>>
    ELSE LET subset == SelectRows(d, Frame([i \in 1..Len(d) |-> d[i].trade_type = types[1]]))
             rest   == trade_type_rows(d, Tail(types))
         IN  IF Len(subset) = 0 THEN rest
             ELSE << [Setup         |-> upper(types[1]),
                      Profit_Factor |-> IF total_losses(subset) > 0
                                        THEN ratio(total_gains(subset), total_losses(subset))
                                        ELSE Inf] >> \o rest

calculate_trade_type_stats(d) == trade_type_rows(d, TRADE_TYPES)

\* the rows appended by the loops over trade types and directions
RECURSIVE by_direction_rows(_, _, _)
by_direction_rows(d, types, directions) ==
    IF types = <<>> THEN <<>>
    ELSE IF directions = <<>> THEN by_direction_rows(d, Tail(types), DIRECTIONS)
    ELSE LET subset == SelectRows(d, Frame([i \in 1..Len(d) |->
                           d[i].trade_type = types[1] /\ d[i].direction = directions[1]]))
             rest   == by_direction_rows(d, types, Tail(directions))
         IN  IF Len(subset) = 0 THEN rest
             ELSE << [Setup         |-> upper(types[1]),
                      Direction     |-> directions[1],
                      Profit_Factor |-> IF total_losses(subset) > 0
                                        THEN ratio(total_gains(subset), total_losses(subset))
                                        ELSE Finite(0)] >> \o rest

calculate_trade_type_by_direction(d) == by_direction_rows(d, TRADE_TYPES, DIRECTIONS)

\* data_loader.py:116-122  the direction column, upper-cased and stripped,
\* with the broker's four action names replaced
normalize_direction(direction) ==
    CASE direction \in {"Open Long", "OPEN LONG", "CLOSE LONG"} -> "LONG"
      [] direction \in {"Open Short", "OPEN SHORT", "CLOSE SHORT"} -> "SHORT"
      [] direction = "long" -> "LONG"
      [] direction = "short" -> "SHORT"
      [] OTHER -> direction

MaxRatioTrades == 3
RawDirections == {"Open Long", "SHORT"}
RatioPnLs == {-1, 1, 2}
RatioDurations == {1, 7}

LoadRatioTrade ==
    /\ stage = "loading"
    /\ Len(df) < MaxRatioTrades
    /\ \E direction \in RawDirections, pnl \in RatioPnLs, dur \in RatioDurations :
          LET close == LastClose(df) + 2
              raw   == [symbol |-> "BTC_USDT", open_time |-> close - dur,
                        close_time |-> close, pnl |-> pnl]
              row   == SetCol(normalize_positions(raw), "direction",
                              normalize_direction(direction))
          IN  df' = sort_values_close_time(Append(df, row))
    /\ UNCHANGED <<stage, df_prev, df_filtered, selected_symbols, behavioral_stats, tiltmeter,
                   loaded_runs, outputs>>

\* app.py:251-252 and 268-270: the statistics tables of a non-empty frame
CalculateStats ==
    /\ stage = "loading"
    /\ Len(df) > 0
    /\ LET typed == add_trade_type_column(df).ret
       IN  /\ df' = typed
           /\ stats' = [global_stats            |-> calculate_global_stats(df),
                        direction_stats         |-> calculate_direction_stats(df),
                        trade_type_stats        |-> calculate_trade_type_stats(typed),
                        trade_type_by_direction |-> calculate_trade_type_by_direction(typed)]
    /\ stage' = "stats_done"
    /\ UNCHANGED <<df_prev, df_filtered, selected_symbols, behavioral_stats, tiltmeter,
                   loaded_runs, nb_trades, alerts, error, trade_dna, monte_carlo, returned>>

NextRatios == LoadRatioTrade \/ CalculateStats

SpecRatios == Init /\ [][NextRatios]_vars

(***************************************************************************)
(* Properties of the ratios (specification SpecRatios).                    *)
(***************************************************************************)
\* The trades of d that satisfy keep, and whether none of them is a loss.
NoLossAmong(d, keep(_)) == \A i \in 1..Len(d) : keep(d[i]) => ~(d[i].pnl < 0)

SomeAmong(d, keep(_)) == \E i \in 1..Len(d) : keep(d[i])

\* The equity curve of d never falls below an earlier peak.
RECURSIVE Equity(_, _)
Equity(d, i) == IF i = 0 THEN 0 ELSE Equity(d, i - 1) + d[i].pnl

NoDrawdown(d) == \A i \in 1..Len(d) : \A j \in 1..i : Equity(d, j) <= Equity(d, i)

\* C19: every profit factor, recovery factor and R:R ratio reported (global,
\* per direction, per trade type, per trade type and direction) is, when its
\* denominator (total losses, max drawdown, average loss) is zero, a sentinel
\* that no computed finite value equals.
C19_ZeroDenominatorSentinel ==
    stage = "stats_done" =>
        LET All(row) == TRUE
        IN  /\ NoLossAmong(df, All) =>
                  /\ stats.global_stats.profit_factor.kind # "finite"
                  /\ stats.global_stats.avg_rr.kind # "finite"
            /\ NoDrawdown(df) => stats.global_stats.recovery_factor.kind # "finite"
            /\ \A direction \in {"LONG", "SHORT"} :
                  LET In(row) == row.direction = direction
                      entry   == IF direction = "LONG" THEN stats.direction_stats.long
                                 ELSE stats.direction_stats.short
                  IN  (SomeAmong(df, In) /\ NoLossAmong(df, In))
                         => entry.avg_rr.kind # "finite"
            /\ \A k \in 1..Len(stats.trade_type_stats) :
                  LET line   == stats.trade_type_stats[k]
                      In(row) == upper(row.trade_type) = line.Setup
                  IN  NoLossAmong(df, In) => line.Profit_Factor.kind # "finite"
            /\ \A k \in 1..Len(stats.trade_type_by_direction) :
                  LET line   == stats.trade_type_by_direction[k]
                      In(row) == upper(row.trade_type) = line.Setup /\ row.direction = line.Direction
                  IN  NoLossAmong(df, In) => line.Profit_Factor.kind # "finite"

(***************************************************************************)
(* The engine stages as calls: what the caller's frame holds after the     *)
(* call, next to what the call returns.                                    *)
(***************************************************************************)
FrameStages == {"calculate_discipline_score", "label_trades", "perform_clustering",
                "add_trade_type_column"}

\* scoring.py:29  df = df.copy(), then the columns are assigned
call_calculate_discipline_score(d) ==
    LET copied   == TRUE
        assigned == calculate_discipline_score(d)
    IN  Returned(assigned, caller_frame(copied, d, assigned))

\* scoring.py:84  df = df.copy(), then the columns are assigned
call_label_trades(d) ==
    LET copied   == TRUE
        assigned == label_trades(d)
    IN  Returned(assigned, caller_frame(copied, d, assigned))

\* behavioral_stats.py:15-66  only selections of df are read
call_calculate_behavioral_stats(d) == Returned(calculate_behavioral_stats(d), d)

\* trade_types.py:158-166  df_sorted = df.sort_values('close_time').copy(),
\* then is_loss, loss_streak and prev_loss_streak are assigned to df_sorted
tiltmeter_frame(d) ==
    LET df_sorted == sort_values_close_time(d)
        streak    == tilt_loss_streak(df_sorted)
        prev      == shift1_fill0(streak)
    IN  Frame([i \in 1..Len(d) |->
            SetCol(SetCol(SetCol(df_sorted[i], "is_loss", df_sorted[i].pnl < 0),
                          "loss_streak", streak[i]),
                   "prev_loss_streak", prev[i])])

call_calculate_tiltmeter(d) ==
    IF Len(d) = 0 THEN Returned(calculate_tiltmeter(d), d)
    ELSE LET copied   == TRUE
             assigned == tiltmeter_frame(d)
         IN  Returned(calculate_tiltmeter(d), caller_frame(copied, d, assigned))

\* robustness.py:12-15  pnls = df['pnl'].values is only read:
\* np.random.permutation(pnls) returns a new array
call_monte_carlo_simulation(d, draws) == Returned(monte_carlo_simulation(d, draws), d)

MaxPureTrades == 3
PurePnLs == {-1, 1}

LoadPureTrade ==
    /\ stage = "loading"
    /\ Len(df) < MaxPureTrades
    /\ \E pnl \in PurePnLs :
          LET close == LastClose(df) + 2
              raw   == [symbol |-> "BTC_USDT", open_time |-> close - 1,
                        close_time |-> close, pnl |-> pnl]
          IN  df' = with_hour(normalize_data(df, <<raw>>))
    /\ UNCHANGED <<stage, df_prev, df_filtered, selected_symbols, behavioral_stats, tiltmeter,
                   loaded_runs, outputs>>

\* A stage is called on the loaded frame or on the frame bound last.
Callable == stage \in {"loading", "bound"}

\* The call name(df): df_prev keeps the frame as it was passed, df is the
\* caller's frame once the call has returned or raised.
Call(name, call) ==
    /\ df_prev' = df
    /\ df' = call.input
    /\ returned' = [stage |-> name, raised |-> call.raised, ret |-> call.ret]
    /\ stage' = "called"
    /\ UNCHANGED <<df_filtered, selected_symbols, behavioral_stats, tiltmeter, loaded_runs,
                   nb_trades, alerts, error, trade_dna, monte_carlo, stats>>

CallDisciplineScore ==
    /\ Callable
    /\ Call("calculate_discipline_score", call_calculate_discipline_score(df))

CallLabelTrades ==
    /\ Callable
    /\ "discipline_score" \in Columns(df)
    /\ Call("label_trades", call_label_trades(df))

\* app.py:240  the frame is clustered once
CallClustering ==
    /\ Callable
    /\ "cluster" \notin Columns(df)
    /\ \E labels \in Labellings(Len(df), N_CLUSTERS) :
          Call("perform_clustering", perform_clustering(df, N_CLUSTERS, labels))

CallBehavioralStats ==
    /\ Callable
    /\ Call("calculate_behavioral_stats", call_calculate_behavioral_stats(df))

CallTiltmeter ==
    /\ Callable
    /\ Call("calculate_tiltmeter", call_calculate_tiltmeter(df))

CallTradeDNA ==
    /\ Callable
    /\ Call("extract_trade_dna", extract_trade_dna(df))

CallMonteCarlo ==
    /\ Callable
    /\ \E shuffled \in Shuffles(Column(df, "pnl")) :
          Call("monte_carlo_simulation", call_monte_carlo_simulation(df, <<shuffled>>))

CallTradeType ==
    /\ Callable
    /\ Len(df) > 0
    /\ Call("add_trade_type_column", add_trade_type_column(df))

\* app.py:238-240, 268  df = <stage>(df): the name df is bound to the frame a
\* stage returned; a dict is bound to a name of its own.
Bind ==
    /\ stage = "called"
    /\ df' = IF returned.stage \in FrameStages /\ returned.raised = "" THEN returned.ret
             ELSE df
    /\ returned' = NoStats
    /\ stage' = "bound"
    /\ UNCHANGED <<df_prev, df_filtered, selected_symbols, behavioral_stats, tiltmeter,
                   loaded_runs, nb_trades, alerts, error, trade_dna, monte_carlo, stats>>

NextPure ==
    \/ LoadPureTrade
    \/ CallDisciplineScore
    \/ CallLabelTrades
    \/ CallClustering
    \/ CallBehavioralStats
    \/ CallTiltmeter
    \/ CallTradeDNA
    \/ CallMonteCarlo
    \/ CallTradeType
    \/ Bind

SpecPure == Init /\ [][NextPure]_vars

(***************************************************************************)
(* Properties of the calls (specification SpecPure).                       *)
(***************************************************************************)
\* The columns a stage that returns a frame adds to it.
DerivedColumns(name) ==
    CASE name = "calculate_discipline_score" ->
             {"discipline_score", "prev_loss_streak", "time_since_prev"}
      [] name = "label_trades" -> {"trade_label", "is_destructive", "is_false_good"}
      [] name = "perform_clustering" -> {"cluster"}
      [] name = "add_trade_type_column" -> {"trade_type"}
      [] OTHER -> {}

\* C20: once an engine stage has returned (or raised), the frame passed to
\* it is what it was before the call: same rows, same order, same columns and
\* values; the columns the stage derives are in the frame it returns (a frame
\* without rows shows no column here).
C20_StagesLeaveInputUnchanged ==
    stage = "called" =>
        /\ df = df_prev
        /\ (returned.stage \in FrameStages /\ returned.raised = "")
              => /\ Len(returned.ret) = Len(df)
                 /\ Len(df) > 0
                       => DerivedColumns(returned.stage) \subseteq Columns(returned.ret)

\* A frame of three labelled trades is clustered: the returned frame has the
\* cluster column, the frame passed has not.
C20_Witness ==
    /\ stage = "called"
    /\ returned.stage = "perform_clustering"
    /\ returned.raised = ""
    /\ Len(df) = 3
    /\ "trade_label" \in Columns(df)
    /\ "cluster" \in Columns(returned.ret)
    /\ "cluster" \notin Columns(df)

(***************************************************************************)
(* ml/scoring.py: get_discipline_summary                                   *)
(* A float that is not an integer is kept as the fraction it is the        *)
(* quotient of; the mean, the minimum and the quotient 0 / 0 of an empty   *)
(* column are NaN (numpy arithmetic: a warning, no exception).             *)
(***************************************************************************)
Fraction(num, den) == [num |-> num, den |-> den]

\* (count / len(df)) * 100
pct_of(count, n) == IF n = 0 THEN NaN ELSE <<Fraction(100 * count, n)>>

\* Series.mean()
series_mean(values) ==
    IF values = <<>> THEN NaN ELSE <<Fraction(SeqSum(values), Len(values))>>

\* Series.median()
series_median(values) ==
    IF values = <<>> THEN NaN ELSE <<Fraction(median_times2(values), 2)>>

get_discipline_summary(d) ==
    LET n      == Len(d)
        scores == Column(d, "discipline_score")
        destructive_count == CountTrue(Column(d, "is_destructive"))
        false_good_count  == CountTrue(Column(d, "is_false_good"))
        healthy == CountTrue(Frame([i \in 1..n |->
                                       ~d[i].is_destructive /\ ~d[i].is_false_good]))
    IN  [avg_score         |-> series_mean(scores),
         median_score      |-> series_median(scores),
         min_score         |-> IF n = 0 THEN NaN ELSE <<series_min(scores)>>,
         max_score         |-> IF n = 0 THEN NaN ELSE <<series_max(scores)>>,
         pct_destructive   |-> pct_of(destructive_count, n),
         pct_false_good    |-> pct_of(false_good_count, n),
         pct_healthy       |-> pct_of(healthy, n),
         total_trades      |-> n,
         destructive_count |-> destructive_count,
         false_good_count  |-> false_good_count]

(***************************************************************************)
(* One session run through the engine: the scorer, the labeller, the       *)
(* behavioural statistics with their alerts, and the tilt index.           *)
(***************************************************************************)
\* app.py:238-239, 253, 261, 273, 657
Session ==
    /\ stage = "loading"
    /\ LET scored == label_trades(calculate_discipline_score(df))
           st     == calculate_behavioral_stats(scored)
       IN  /\ df' = scored
           /\ stats' = [discipline_summary |-> get_discipline_summary(scored)]
           /\ behavioral_stats' = st
           /\ alerts' = detect_behavioral_patterns(st)
           /\ tiltmeter' = calculate_tiltmeter(scored)
    /\ nb_trades' = Len(df)
    /\ stage' = "session"
    /\ UNCHANGED <<df_prev, df_filtered, selected_symbols, loaded_runs, error, trade_dna,
                   monte_carlo, returned>>

ScenarioATrades == 10
ScenarioAGap == 40
ScenarioADurations == {10, 20}

\* a session of winning trades closed 40 minutes apart within one day
LoadWinningTrade ==
    /\ stage = "loading"
    /\ Len(df) < ScenarioATrades
    /\ LoadPosition({"BTC_USDT"}, {1}, {ScenarioAGap}, ScenarioADurations)
    /\ UNCHANGED <<stage, df_prev, df_filtered, selected_symbols, behavioral_stats, tiltmeter,
                   loaded_runs, outputs>>

NextScenarioA == LoadWinningTrade \/ Session

SpecScenarioA == Init /\ [][NextScenarioA]_vars

(***************************************************************************)
(* Properties of the sessions.                                             *)
(***************************************************************************)
\* No row of d follows five losses, and no row was opened less than five
\* minutes after the row before it.
NoStreakOrGapTrigger(d) ==
    /\ \A i \in 1..Len(d) : d[i].prev_loss_streak < REVENGE_STREAK
    /\ \A i \in 2..Len(d) : d[i].open_time - d[i - 1].open_time >= IMPULSE_MINUTES

\* A session of 10 winning trades without a streak or a gap trigger, run
\* through the engine.
ScenarioA ==
    /\ stage = "session"
    /\ Len(df) = 10
    /\ \A i \in 1..Len(df) : df[i].pnl > 0
    /\ NoStreakOrGapTrigger(df)

ScenarioBLosses == 6
ScenarioBGap == 20
ScenarioBDelay == 2
ScenarioBDurations == {1, 3, 10}

\* The last trade of d was opened ScenarioBDelay minutes after the trade
\* before it closed.
FollowedUp(d) ==
    Len(d) >= 2 /\ d[Len(d)].open_time = d[Len(d) - 1].close_time + ScenarioBDelay

LoadLosingTrade ==
    /\ stage = "loading"
    /\ Len(df) < ScenarioBLosses
    /\ ~FollowedUp(df)
    /\ LoadPosition({"BTC_USDT"}, {-1}, {ScenarioBGap}, ScenarioBDurations)
    /\ UNCHANGED <<stage, df_prev, df_filtered, selected_symbols, behavioral_stats, tiltmeter,
                   loaded_runs, outputs>>

\* the trade that follows the run of losses
LoadFollowUpTrade ==
    /\ stage = "loading"
    /\ Len(df) >= 1
    /\ ~FollowedUp(df)
    /\ \E pnl \in PnLs, dur \in ScenarioBDurations :
          LET open == LastClose(df) + ScenarioBDelay
              raw  == [symbol |-> "BTC_USDT", open_time |-> open,
                       close_time |-> open + dur, pnl |-> pnl]
          IN  df' = normalize_data(df, <<raw>>)
    /\ UNCHANGED <<stage, df_prev, df_filtered, selected_symbols, behavioral_stats, tiltmeter,
                   loaded_runs, outputs>>

NextScenarioB == LoadLosingTrade \/ LoadFollowUpTrade \/ Session

SpecScenarioB == Init /\ [][NextScenarioB]_vars

\* Six losing trades, then a seventh opened 2 minutes after the sixth
\* closed, run through the engine.
ScenarioB ==
    /\ stage = "session"
    /\ Len(df) = 7
    /\ \A i \in 1..6 : df[i].pnl < 0
    /\ df[7].open_time = df[6].close_time + 2

RevengeRows(d) == {i \in 1..Len(d) : d[i].prev_loss_streak >= 5}

QuickRows(d) == {i \in 1..Len(d) : LessThan(d[i].time_since_prev, 5)}

\* C22 as stated: in scenario B the seventh trade has loss_streak_before = 6
\* and minutes_since_prev < 5, scores 70, is labelled healthy and is counted
\* in the revenge and in the quick-entry counts.
C22_ScenarioB ==
    ScenarioB
    => /\ df[7].prev_loss_streak = 6
       /\ LessThan(df[7].time_since_prev, 5)
       /\ df[7].discipline_score = 70
       /\ df[7].trade_label = "Trade sain"
       /\ 7 \in RevengeRows(df) /\ behavioral_stats.revenge_count = Cardinality(RevengeRows(df))
       /\ 7 \in QuickRows(df) /\ behavioral_stats.quick_entry_count = Cardinality(QuickRows(df))

\* C22: scenario B.  The seventh trade has loss_streak_before = 6 and takes
\* the revenge penalty; its minutes_since_prev is the sixth trade's duration
\* plus 2 (it is measured from the sixth trade's open), so it is below 5, with
\* the impulsivity penalty and a place in the quick-entry count, iff the sixth
\* trade lasted less than 3 minutes; it also takes the short-duration penalty
\* when its duration is at or below the 20th percentile.  Its score is 100
\* less the penalties it takes (70 with the revenge and the impulsivity
\* penalty alone); it is labelled healthy unless it is a win that scores below
\* 60; it is counted in the revenge count.
C22_ScenarioBSeventhTrade ==
    ScenarioB
    => LET quick == df[6].duration_minutes < 3
           short == AtOrBelow20th(df, 7)
       IN  /\ df[7].prev_loss_streak = 6
           /\ df[7].time_since_prev = <<df[6].duration_minutes + 2>>
           /\ LessThan(df[7].time_since_prev, 5) <=> quick
           /\ df[7].discipline_score = 100 - 20 - 10 * Ind(quick) - 30 * Ind(short)
           /\ df[7].trade_label = IF df[7].pnl > 0 /\ df[7].discipline_score < 60
                                  THEN "Faux bon trade" ELSE "Trade sain"
           /\ 7 \in RevengeRows(df)
           /\ behavioral_stats.revenge_count = Cardinality(RevengeRows(df))
           /\ 7 \in QuickRows(df) <=> quick
           /\ behavioral_stats.quick_entry_count = Cardinality(QuickRows(df))

\* The scenario as the spec tells it: the sixth trade lasted a minute, the
\* seventh is not among the shortest and scores 70.
C22_Witness ==
    /\ ScenarioB
    /\ df[6].duration_minutes = 1
    /\ df[7].time_since_prev = <<3>>
    /\ df[7].discipline_score = 70
    /\ df[7].trade_label = "Trade sain"
    /\ behavioral_stats.revenge_count = 2

(***************************************************************************)
(* Trade types of a frame whose rows carry a leverage.                     *)
(***************************************************************************)
MaxTypeTrades == 2
Leverages == {1, 49, 50, 100}
TypeDurations == {1, 4, 5, 60, 61}

\* data_loader.py:173-175  the leverage column, absent from a frame that did
\* not go through enrich_with_orders
with_leverage(row, enriched, leverage) ==
    IF enriched THEN SetCol(row, "leverage", leverage) ELSE row

LoadLeveragedTrade ==
    /\ stage = "loading"
    /\ Len(df) < MaxTypeTrades
    /\ \E enriched \in BOOLEAN, leverage \in Leverages, dur \in TypeDurations :
          LET close == LastClose(df) + 2
              raw   == [symbol |-> "BTC_USDT", open_time |-> close - dur,
                        close_time |-> close, pnl |-> 1]
          IN  df' = sort_values_close_time(
                        Append(df, with_leverage(normalize_positions(raw), enriched, leverage)))
    /\ UNCHANGED <<stage, df_prev, df_filtered, selected_symbols, behavioral_stats, tiltmeter,
                   loaded_runs, outputs>>

\* app.py:268  df = add_trade_type_column(df)
ClassifyTrades ==
    /\ stage = "loading"
    /\ Len(df) > 0
    /\ df' = add_trade_type_column(df).ret
    /\ stage' = "typed"
    /\ UNCHANGED <<df_prev, df_filtered, selected_symbols, behavioral_stats, tiltmeter,
                   loaded_runs, outputs>>

NextTradeType == LoadLeveragedTrade \/ ClassifyTrades

SpecTradeType == Init /\ [][NextTradeType]_vars

\* The leverage a row was traded with (1 when the frame has no such column).
LeverageOf(row) == IF "leverage" \in DOMAIN row THEN row.leverage ELSE 1

\* C23: every trade gets exactly one of the four trade types: high-leverage
\* iff its leverage is >= 50, whatever its duration; otherwise scalp iff its
\* duration is < 5 minutes, swing iff it is > 60 minutes, and standard iff it
\* is from 5 to 60 minutes.
C23_TradeTypeClassification ==
    stage = "typed" =>
        \A i \in 1..Len(df) :
            LET lev == LeverageOf(df[i])
                dur == df[i].duration_minutes
                type == df[i].trade_type
            IN  /\ type \in {"high_lev", "scalp", "swing", "standard"}
                /\ type = "high_lev" <=> lev >= 50
                /\ type = "scalp"    <=> lev < 50 /\ dur < 5
                /\ type = "swing"    <=> lev < 50 /\ dur > 60
                /\ type = "standard" <=> lev < 50 /\ dur >= 5 /\ dur <= 60

\* A short trade and a long trade, both at leverage 50 or more, are
\* high-leverage trades.
C23_Witness ==
    /\ stage = "typed"
    /\ Len(df) = 2
    /\ \E i, j \in 1..Len(df) :
          /\ df[i].duration_minutes < 5 /\ df[j].duration_minutes > 60
          /\ LeverageOf(df[i]) >= 50 /\ LeverageOf(df[j]) >= 50
          /\ df[i].trade_type = "high_lev" /\ df[j].trade_type = "high_lev"

(***************************************************************************)
(* Properties of the impulsivity rule (specification Spec).                *)
(***************************************************************************)
\* The impulsivity penalty was taken from row i: what is missing from 100
\* beyond the short-duration and the revenge penalties.
ImpulsePenaltyApplied(d, i) ==
    d[i].discipline_score
       = 100 - 10 - 30 * Ind(ShortRule(d, i)) - 20 * Ind(d[i].prev_loss_streak >= 5)

\* C24: a trade is flagged impulsive and takes the -10 penalty only if it was
\* opened after the previous trade's open and less than 5 minutes after it; a
\* trade opened before the previous trade's open is not flagged.
C24_ImpulsiveOnlyAfterPreviousOpen ==
    Scored =>
        \A i \in 2..Len(df) :
            (LessThan(df[i].time_since_prev, 5) \/ ImpulsePenaltyApplied(df, i))
                => /\ df[i].open_time >= df[i - 1].open_time
                   /\ df[i].open_time - df[i - 1].open_time < 5

(***************************************************************************)
(* Sessions of any trades: both signs, short and long.                     *)
(***************************************************************************)
MaxSessionTrades == 6
SessionDurations == {1, 7}

LoadSessionTrade ==
    /\ stage = "loading"
    /\ Len(df) < MaxSessionTrades
    /\ LoadPosition({"BTC_USDT"}, PnLs, CloseGaps, SessionDurations)
    /\ UNCHANGED <<stage, df_prev, df_filtered, selected_symbols, behavioral_stats, tiltmeter,
                   loaded_runs, outputs>>

NextSession == LoadSessionTrade \/ Session

SpecSession == Init /\ [][NextSession]_vars

\* A float is zero: not NaN, and its numerator is 0.
IsZero(x) == x # NaN /\ x[1].num = 0

\* C25: on an empty trade sequence every stage returns an empty or zero
\* result without raising: the scored sequence and the behavioural
\* statistics are empty, there is no alert, the discipline summary is zero
\* throughout, and the tilt calculator reports no alerts.
C25_EmptySequence ==
    (stage = "session" /\ nb_trades = 0)
    => LET summary == stats.discipline_summary
       IN  /\ df = <<>>
           /\ behavioral_stats = <<>>
           /\ alerts = <<>>
           /\ tiltmeter.alerts = <<>>
           /\ summary.total_trades = 0
           /\ summary.destructive_count = 0 /\ summary.false_good_count = 0
           /\ IsZero(summary.avg_score)
           /\ IsZero(summary.pct_destructive)
           /\ IsZero(summary.pct_false_good)
           /\ IsZero(summary.pct_healthy)

(***************************************************************************)
(* Sessions with break-even trades.                                        *)
(***************************************************************************)
MaxStreakTrades == 6

LoadStreakTrade ==
    /\ stage = "loading"
    /\ Len(df) < MaxStreakTrades
    /\ LoadPosition({"BTC_USDT"}, ScoredRowPnLs, {SessionGap}, {1})
    /\ UNCHANGED <<stage, df_prev, df_filtered, selected_symbols, behavioral_stats, tiltmeter,
                   loaded_runs, outputs>>

NextStreaks == LoadStreakTrade \/ Session

SpecStreaks == Init /\ [][NextStreaks]_vars

\* C26: for a session sorted by close time the revenge share of the tilt
\* calculator equals the revenge share of the behavioural statistics, and
\* both count exactly the trades preceded by 5 or more consecutive trades that
\* are not wins (a break-even trade does not reset the streak).
C26_RevengeSharesAgree ==
    (stage = "session" /\ Len(df) > 0)
    => LET revenge == Cardinality({i \in 1..Len(df) : FiveLossesBefore(df, i)})
       IN  /\ tiltmeter.revenge_pct = behavioral_stats.revenge_pct
           /\ behavioral_stats.revenge_count = revenge
           /\ tiltmeter.revenge_pct = pct_tenths(revenge, Len(df))

\* C27: for a session sorted by close time the impulsive share of the tilt
\* calculator equals the quick-entry share of the behavioural statistics, and
\* both count exactly the trades whose minutes_since_prev, the gap between
\* the trade's open and the previous trade's open, is below 5.
C27_ImpulsiveSharesAgree ==
    (stage = "session" /\ Len(df) > 0)
    => LET quick == Cardinality({i \in 1..Len(df) : OpenedWithin5(df, i)})
       IN  /\ tiltmeter.impulsive_pct = behavioral_stats.quick_entry_pct
           /\ behavioral_stats.quick_entry_count = quick
           /\ tiltmeter.impulsive_pct = pct_tenths(quick, Len(df))

PossibleScores == {40, 50, 60, 70, 80, 90, 100}

MinDuration(d, i) == \A j \in 1..Len(d) : d[i].duration_minutes <= d[j].duration_minutes

\* C29: with more than 5 trades every trade of minimum duration takes the
\* short-duration penalty, so some score is below 100; when all durations are
\* equal every trade takes it.
C29_ShortestAlwaysPenalised ==
    (Scored /\ Len(df) > 5)
    => /\ \A i \in 1..Len(df) : MinDuration(df, i) => ShortPenaltyApplied(df, i)
       /\ \E i \in 1..Len(df) : df[i].discipline_score < 100
       /\ (\A i, j \in 1..Len(df) : df[i].duration_minutes = df[j].duration_minutes)
             => \A i \in 1..Len(df) : ShortPenaltyApplied(df, i)

\* Six trades of which one is shorter than the others: it scores 70 with no
\* other penalty applied to it.
C29_Witness ==
    /\ Scored
    /\ Len(df) = 6
    /\ \E i \in 1..Len(df) :
          /\ \A j \in 1..Len(df) : j # i => df[i].duration_minutes < df[j].duration_minutes
          /\ df[i].discipline_score = 70
          /\ \E j \in 1..Len(df) : ~ShortPenaltyApplied(df, j)

(***************************************************************************)
(* Properties of the drawdowns (specification SpecMonteCarlo).             *)
(***************************************************************************)
RECURSIVE PrefixSum(_, _)
PrefixSum(s, i) == IF i = 0 THEN 0 ELSE PrefixSum(s, i - 1) + s[i]

\* The largest fall of the running sum of s below an earlier value of it,
\* as a number <= 0.
Drawdown(s) ==
    LET pairs == {q \in (1..Len(s)) \X (1..Len(s)) : q[2] <= q[1]}
        falls == {PrefixSum(s, q[1]) - PrefixSum(s, q[2]) : q \in pairs}
    IN  CHOOSE m \in falls : \A f \in falls : m <= f

\* Sum of the magnitudes of the negative PnL values of the frame.
NegativeMagnitude ==
    SeqSum(Frame([i \in 1..Len(df) |-> IF df[i].pnl < 0 THEN -df[i].pnl ELSE 0]))

\* C30: in every Monte Carlo trial the recorded drawdown is the minimum over
\* the prefixes of the cumulative sum minus its running maximum, for some
\* order of the input; it is <= 0, so worst_dd <= mean_dd <= 0; it is 0 in
\* every trial when no PnL is negative, and its magnitude never exceeds the
\* sum of the magnitudes of the negative PnL values.
C30_DrawdownBounds ==
    (Simulated /\ Len(df) > 0) =>
        /\ \A t \in 1..Len(mc_results) :
              /\ \E shuffled \in Shuffles(Column(df, "pnl")) :
                    mc_results[t].max_dd = Drawdown(shuffled)
              /\ mc_results[t].max_dd <= 0
              /\ -mc_results[t].max_dd <= NegativeMagnitude
              /\ (\A i \in 1..Len(df) : df[i].pnl >= 0) => mc_results[t].max_dd = 0
        /\ mc_stats.worst_dd <= mc_stats.mean_dd
        /\ mc_stats.mean_dd <= 0

\* Two trials of a frame with a loss: one order has no drawdown, the other
\* falls by the loss, so worst_dd < mean_dd < 0.
C30_Witness ==
    /\ Simulated
    /\ n_simulations = 2
    /\ \E t \in 1..Len(mc_results) : mc_results[t].max_dd = 0
    /\ \E t \in 1..Len(mc_results) : mc_results[t].max_dd = -NegativeMagnitude
    /\ NegativeMagnitude > 0
    /\ mc_stats.worst_dd < mc_stats.mean_dd
    /\ mc_stats.mean_dd < 0

====
